---- MODULE Spec2Model ----
(***************************************************************************)
(* A model of the document processing pipeline of property-tr-report:      *)
(* the job orchestrator (worker: processJob, processExtraction,            *)
(* processAnalysis, processReportGeneration; routes: extract, analyze,     *)
(* resume, generate-report), the task substrate (queueManager, BullMQ      *)
(* worker or in-memory immediate execution), the in-memory status map,     *)
(* and the AI invoker's retry loop (executeWithRetry).                     *)
(*                                                                         *)
(* Spec      : one job driven by its HTTP endpoints and its task flows.    *)
(* SpecLive  : the same job when no call fails and the host does not       *)
(*             restart, every started step of a task being taken.          *)
(* SpecPass  : one extract request on an archive of up to MaxPassDocs      *)
(*             files, one read of a Document possibly failing.             *)
(* SpecRetry : one call of analyzeChunk through executeWithRetry.          *)
(* SpecAnalyzePdf, SpecChunks, SpecBatches, SpecMerge : one call of        *)
(*             analyzePdf, extractTextChunks, splitPdfIntoBatches,         *)
(*             mergeExtractionResults (pdfChunkService).                   *)
(* SpecLargePdf : analyzeDocument on one large PDF (processLargePdf).      *)
(***************************************************************************)
EXTENDS Integers, Sequences, FiniteSets, TLC

(***************************************************************************)
(* Bounds of the model (not program constants).                            *)
(***************************************************************************)
\* the longest archive that is uploaded
MaxDocs == 2
\* how many task-enqueueing requests (extract, analyze, resume,
\* generate-report) are issued on the job
MaxRequests == 2
\* how many failures (a storage or queue call that throws, a host restart)
\* happen during one behaviour
MaxFaults == 1

(***************************************************************************)
(* Program constants.                                                      *)
(***************************************************************************)
\* PDF_CONFIG.MAX_DIRECT_PDF_SIZE, in MB (LARGE_FILE_THRESHOLD of the worker)
MAX_DIRECT_PDF_SIZE_MB == 10
\* "Save progress periodically (every 5 documents ...)"
SAVE_EVERY == 5
\* defaultJobOptions.attempts of the BullMQ queue
QUEUE_ATTEMPTS == 2

VARIABLES
  substrate,   \* "memory" (useInMemoryQueue) or "bullmq"
  archive,     \* the uploaded documents.zip: <<>> when none, else <<entries>>
  ledger,      \* jobs/<id>/processing/queue.json: <<>> when absent, else <<queueData>>
  metadata,    \* jobs/<id>/metadata.json
  jobStatus,   \* jobStatusMap.get(jobId): <<>> when absent, else <<status record>>
  tasks,       \* tasks added to the queue and not yet started
  flows,       \* the running executions of processJob, by slot
  errors,      \* how many times processJob has caught an error ('error' broadcast)
  reqs,        \* the requests answered so far: what each one was answered
  faults       \* failures injected so far

orchVars == <<substrate, archive, ledger, metadata, jobStatus, tasks, flows,
              errors, reqs, faults>>

\* one call of analyzeChunk, through executeWithRetry, for one unit
VARIABLES
  rpc,          \* "idle", "call", "sleep", "responded", "recorded" or "threw"
  attempt,      \* executeWithRetry's loop variable
  calls,        \* how many times apiCall was invoked
  seen,         \* the status of the error of each failed invocation, in order
  waits,        \* the delays slept, in order (ms)
  delayMs,      \* the delay about to be slept
  response,     \* the response apiCall returned: <<>> or <<[text, input_tokens]>>
  unitResults,  \* results of the unit's caller (results.push(result.data))
  unitTokens    \* totalInputTokens of the unit's caller

retryVars == <<rpc, attempt, calls, seen, waits, delayMs, response, unitResults,
               unitTokens>>

\* the PDF services (pdfChunkService) and processLargePdf
VARIABLES
  call,         \* the function of pdfChunkService that is called, with its arguments
  ret,          \* what the call returned: <<>> before it returns, else <<value>>
  large         \* analyzeDocument on one large PDF: the locals of processLargePdf

pdfVars == <<call, ret, large>>

\* the variables outside the orchestrator, outside the retry loop and
\* outside the PDF services
outsideOrch == <<retryVars, pdfVars>>
outsideRetry == <<orchVars, pdfVars>>
outsidePdf == <<orchVars, retryVars>>

(***************************************************************************)
(* Archive entries.  An entry has a path (folder, base name) and a size.   *)
(* The worker keeps only the base name of the path.                        *)
(***************************************************************************)
Files ==
  { [dir |-> "d1", base |-> "a.pdf", sizeMB |-> 1],
    [dir |-> "d2", base |-> "a.pdf", sizeMB |-> 25],
    [dir |-> "d1", base |-> "b.pdf", sizeMB |-> 25] }

RECURSIVE SeqsUpTo(_, _)
SeqsUpTo(S, n) ==
  IF n = 0 THEN { <<>> }
  ELSE LET shorter == SeqsUpTo(S, n - 1)
       IN  shorter \cup { Append(s, x) : s \in shorter, x \in S }

Distinct(s) == \A i, j \in 1..Len(s) : i /= j => s[i] /= s[j]

\* the archives that may be uploaded: sequences of distinct paths
Archives == { s \in SeqsUpTo(Files, MaxDocs) : Distinct(s) }

\* fileName = filePath.split('/').pop()
fileName(entry) == entry.base
\* extractedKey = `jobs/${jobId}/uploads/extracted/${fileName}`
extractedKey(entry) == <<"extracted", fileName(entry)>>

\* supportedExtensions.includes(ext), hidden/system names skipped
accepted(entry) ==
  entry.base \in { "a.pdf", "b.pdf", "c.pdf", "d.pdf", "e.pdf", "f.pdf", "g.pdf" }

(***************************************************************************)
(* The ledger (queue.json), the metadata and the in-memory status.         *)
(***************************************************************************)
Document(entry) ==
  [ name |-> fileName(entry), key |-> extractedKey(entry),
    sizeMB |-> entry.sizeMB, status |-> "pending" ]

\* queueData as processExtraction and upload-pdf create it
NewQueueData(documents) ==
  [ totalDocuments |-> Len(documents), processedCount |-> 0,
    documents |-> documents, results |-> <<>>, failedDocuments |-> <<>>,
    status |-> "ready", reportKey |-> FALSE ]

\* jobData of router.post('/create')
CreatedJob ==
  [ status |-> "created", totalDocuments |-> 0, processedCount |-> 0,
    failedCount |-> 0, reportKey |-> FALSE ]

\* a status record none of whose fields is set ({} in updateJobStatus)
Undefined == -1
EmptyStatus ==
  [ status |-> "undefined", totalDocuments |-> Undefined,
    processedCount |-> Undefined, failedCount |-> Undefined, reportKey |-> FALSE ]

\* { ...current, ...updates }
Merge(current, updates) ==
  [ k \in DOMAIN current |-> IF k \in DOMAIN updates THEN updates[k] ELSE current[k] ]

\* updateJobStatus(jobId, updates): the new content of the map entry
updateJobStatus(updates) ==
  <<Merge(IF jobStatus = <<>> THEN EmptyStatus ELSE jobStatus[1], updates)>>

\* documents.filter(d => d.status === 'pending'), as positions in documents
RECURSIVE PendingFrom(_, _)
PendingFrom(documents, j) ==
  IF j > Len(documents) THEN <<>>
  ELSE IF documents[j].status = "pending"
       THEN <<j>> \o PendingFrom(documents, j + 1)
       ELSE PendingFrom(documents, j + 1)
pendingDocs(queueData) == PendingFrom(queueData.documents, 1)

\* queueData.documents.findIndex(d => d.key === doc.key)
findIndex(documents, key) ==
  CHOOSE j \in 1..Len(documents) :
    /\ documents[j].key = key
    /\ \A k \in 1..(j - 1) : documents[k].key /= key

(***************************************************************************)
(* Tasks and flows.                                                        *)
(***************************************************************************)
TaskTypes == { "extract", "analyze", "generate-report" }
\* origin: the endpoint that added the task; attempt: BullMQ's attemptsMade + 1
Task(type, origin) == [ type |-> type, origin |-> origin, attempt |-> 1 ]
NoTask == [ type |-> "none", origin |-> "none", attempt |-> 0 ]

\* a flow: pc, where processJob is; task, the task it runs; queueData,
\* pendingDocs and i, the locals of processAnalysis (queueData also that of
\* processReportGeneration); base, queueData as the pass loaded it; outcomes,
\* what happened to pendingDocs[0..i-1] in this pass
FlowIds == 1..MaxRequests
NoQueueData == NewQueueData(<<>>)
IdleFlow ==
  [ pc |-> "idle", task |-> NoTask, queueData |-> NoQueueData,
    base |-> NoQueueData, pendingDocs |-> <<>>, i |-> 0, outcomes |-> <<>> ]
Active(f) == flows[f].pc /= "idle"
FreeSlot == CHOOSE f \in FlowIds : ~Active(f) /\ \A g \in FlowIds : g < f => Active(g)

\* the Document the pass of flow f is at: pendingDocs[i]
CurrentDoc(fl) == fl.queueData.documents[fl.pendingDocs[fl.i + 1]]
\* docIndex of that Document
DocIndex(fl) == findIndex(fl.queueData.documents, CurrentDoc(fl).key)
\* pdfBuffer is set: a PDF above LARGE_FILE_THRESHOLD
IsLarge(doc) == doc.sizeMB > MAX_DIRECT_PDF_SIZE_MB

\* no call of analyzeChunk is modelled
RetryIdle ==
  /\ rpc = "idle"
  /\ attempt = 0
  /\ calls = 0
  /\ seen = <<>>
  /\ waits = <<>>
  /\ delayMs = 0
  /\ response = <<>>
  /\ unitResults = <<>>
  /\ unitTokens = 0

(***************************************************************************)
(* The state after router.post('/create').                                 *)
(***************************************************************************)
OrchInit ==
  /\ substrate \in { "memory", "bullmq" }
  /\ archive = <<>>
  /\ ledger = <<>>
  /\ metadata = [ status |-> "created", reportKey |-> FALSE, resumeCount |-> 0 ]
  /\ jobStatus = <<CreatedJob>>
  /\ tasks = <<>>
  /\ flows = [ f \in FlowIds |-> IdleFlow ]
  /\ errors = 0
  /\ reqs = <<>>
  /\ faults = 0

\* no function of pdfChunkService is called, no large PDF is processed
NoCall == [ fn |-> "none" ]
NoLargePdf == [ pc |-> "idle" ]
PdfIdle ==
  /\ call = NoCall
  /\ ret = <<>>
  /\ large = NoLargePdf

Init == OrchInit /\ RetryIdle /\ PdfIdle

(***************************************************************************)
(* The endpoints.                                                          *)
(***************************************************************************)
\* queueManager.add(name, data, options): the task joins the queue (the
\* in-memory substrate starts it from a timer, the BullMQ worker takes it)
\* BullMQ drops an add whose options.jobId names a job it still holds (the
\* extract, analyze and generate-report routes reuse their ids, the resume
\* route's ids are fresh); here every add joins the queue.
add(task) == Append(tasks, task)

\* router.post('/:jobId/upload'): the archive is stored, status 'uploaded'
Upload ==
  /\ archive = <<>> /\ ledger = <<>>
  /\ \E a \in Archives :
       archive' = <<a>>
  /\ jobStatus' = updateJobStatus([ status |-> "uploaded" ])
  /\ UNCHANGED <<substrate, ledger, metadata, tasks, flows, errors, reqs, faults,
                 outsideOrch>>

\* router.post('/:jobId/upload-pdf'): one Document is registered directly
UploadPdf ==
  /\ archive = <<>> /\ ledger = <<>>
  /\ \E file \in Files :
       ledger' = <<NewQueueData(<<Document(file)>>)>>
  /\ jobStatus' = updateJobStatus([ status |-> "extracted", totalDocuments |-> 1,
                                    processedCount |-> 0 ])
  /\ UNCHANGED <<substrate, archive, metadata, tasks, flows, errors, reqs, faults,
                 outsideOrch>>

\* router.post('/:jobId/extract')
ReqExtract ==
  /\ Len(reqs) < MaxRequests
  /\ archive /= <<>>
  /\ tasks' = add(Task("extract", "extract"))
  /\ jobStatus' = updateJobStatus([ status |-> "extracting" ])
  /\ reqs' = Append(reqs, "extract")
  /\ UNCHANGED <<substrate, archive, ledger, metadata, flows, errors, faults,
                 outsideOrch>>

\* router.post('/:jobId/analyze')
ReqAnalyze ==
  /\ Len(reqs) < MaxRequests
  /\ tasks' = add(Task("analyze", "analyze"))
  /\ jobStatus' = updateJobStatus([ status |-> "analyzing" ])
  /\ reqs' = Append(reqs, "analyze")
  /\ UNCHANGED <<substrate, archive, ledger, metadata, flows, errors, faults,
                 outsideOrch>>

\* a resume on a completed job that queues the report again
ResumeCompleted_queues ==
  /\ Len(reqs) < MaxRequests
  /\ ledger /= <<>>
  /\ pendingDocs(ledger[1]) = <<>>
  /\ ledger[1].status = "completed"
  /\ tasks' = add(Task("generate-report", "resume"))
  /\ reqs' = Append(reqs, "resume: already completed")
  /\ UNCHANGED <<substrate, archive, ledger, metadata, jobStatus, flows,
                 errors, faults, outsideOrch>>
\* router.post('/:jobId/resume'), no pending Document, ledger completed:
\* "Job already completed"
ResumeCompleted ==
  /\ Len(reqs) < MaxRequests
  /\ ledger /= <<>>
  /\ pendingDocs(ledger[1]) = <<>>
  /\ ledger[1].status = "completed"
  /\ reqs' = Append(reqs, "resume: already completed")
  /\ UNCHANGED <<substrate, archive, ledger, metadata, jobStatus, tasks, flows,
                 errors, faults, outsideOrch>>

\* a resume without pending Documents that queues an analyze task
ResumeReport_analyze ==
  /\ Len(reqs) < MaxRequests
  /\ ledger /= <<>>
  /\ pendingDocs(ledger[1]) = <<>>
  /\ ledger[1].status /= "completed"
  /\ tasks' = add(Task("analyze", "resume"))
  /\ jobStatus' = updateJobStatus([ status |-> "generating-report" ])
  /\ reqs' = Append(reqs, "resume: generating report")
  /\ UNCHANGED <<substrate, archive, ledger, metadata, flows, errors, faults,
                 outsideOrch>>
\* router.post('/:jobId/resume'), no pending Document, report not generated
ResumeReport ==
  /\ Len(reqs) < MaxRequests
  /\ ledger /= <<>>
  /\ pendingDocs(ledger[1]) = <<>>
  /\ ledger[1].status /= "completed"
  /\ tasks' = add(Task("generate-report", "resume"))
  /\ jobStatus' = updateJobStatus([ status |-> "generating-report" ])
  /\ reqs' = Append(reqs, "resume: generating report")
  /\ UNCHANGED <<substrate, archive, ledger, metadata, flows, errors, faults,
                 outsideOrch>>

\* router.post('/:jobId/resume'), pending Documents: the metadata is marked
\* resuming (a failure of that update is only logged) and analyze is queued
ResumeAnalysis ==
  /\ Len(reqs) < MaxRequests
  /\ ledger /= <<>>
  /\ pendingDocs(ledger[1]) /= <<>>
  /\ \/ /\ metadata' = [ metadata EXCEPT !.status = "processing",
                                         !.resumeCount = @ + 1 ]
        /\ faults' = faults
     \/ /\ faults < MaxFaults
        /\ metadata' = metadata
        /\ faults' = faults + 1
  /\ tasks' = add(Task("analyze", "resume"))
  /\ jobStatus' = updateJobStatus([ status |-> "processing" ])
  /\ reqs' = Append(reqs, "resume: analysis resumed")
  /\ UNCHANGED <<substrate, archive, ledger, flows, errors, outsideOrch>>

\* router.post('/:jobId/generate-report')
ReqGenerateReport ==
  /\ Len(reqs) < MaxRequests
  /\ tasks' = add(Task("generate-report", "generate-report"))
  /\ reqs' = Append(reqs, "generate-report")
  /\ UNCHANGED <<substrate, archive, ledger, metadata, jobStatus, flows, errors,
                 faults, outsideOrch>>

\* the status object of router.get('/:jobId/status'): the entry of the
\* in-memory map, else metadata.json (jobData of '/create', whose counts
\* stay 0, with the status and reportKey written since)
statusObject ==
  IF jobStatus /= <<>> THEN jobStatus[1]
  ELSE Merge(CreatedJob, [ status |-> metadata.status,
                            reportKey |-> metadata.reportKey ])

\* the counts of queue.json written over those of the status object
withQueueData(status) ==
  IF ledger /= <<>>
  THEN Merge(status, [ totalDocuments |-> ledger[1].totalDocuments,
                       processedCount |-> ledger[1].processedCount,
                       failedCount |-> Len(ledger[1].failedDocuments) ])
  ELSE status

\* what the status endpoint answers: the status object with the counts,
\* and queueStatus, the status of queue.json (not kept in the map here:
\* nothing reads it from there)
statusResponse ==
  [ status |-> withQueueData(statusObject),
    queueStatus |-> IF ledger /= <<>> THEN ledger[1].status ELSE "undefined" ]

\* router.get('/:jobId/status'): the status object is put in the map when
\* it came from metadata.json, and the counts are written into it
GetStatus ==
  /\ jobStatus' = <<withQueueData(statusObject)>>
  /\ UNCHANGED <<substrate, archive, ledger, metadata, tasks, flows, errors, reqs,
                 faults, outsideOrch>>

(***************************************************************************)
(* The task substrate.                                                     *)
(***************************************************************************)
EntryPc(type) ==
  CASE type = "extract" -> "extract"
    [] type = "analyze" -> "load"
    [] type = "generate-report" -> "report"

\* processJob(job) begins: the in-memory substrate starts every task from
\* its own timer, whatever else is running; the BullMQ worker (concurrency 1)
\* takes the next task only when it runs none
StartTask ==
  /\ tasks /= <<>>
  /\ \E f \in FlowIds : ~Active(f)
  /\ substrate = "bullmq" => \A f \in FlowIds : ~Active(f)
  /\ flows' = [ flows EXCEPT ![FreeSlot] =
                  [ IdleFlow EXCEPT !.pc = EntryPc(Head(tasks).type),
                                    !.task = Head(tasks) ] ]
  /\ tasks' = Tail(tasks)
  /\ UNCHANGED <<substrate, archive, ledger, metadata, jobStatus, errors, reqs,
                 faults, outsideOrch>>

\* processJob's catch: 'error' is broadcast and the error rethrown; the
\* in-memory substrate logs it, BullMQ runs the task again while attempts remain
Throw(f) ==
  /\ flows' = [ flows EXCEPT ![f] = IdleFlow ]
  /\ errors' = errors + 1
  /\ tasks' = IF substrate = "bullmq" /\ flows[f].task.attempt < QUEUE_ATTEMPTS
              THEN Append(tasks, [ flows[f].task EXCEPT !.attempt = @ + 1 ])
              ELSE tasks

\* the task's promise resolves
Return(f) ==
  /\ flows' = [ flows EXCEPT ![f] = IdleFlow ]
  /\ UNCHANGED <<errors, tasks>>

\* a storage or queue call that fails: one of the MaxFaults failures
Fails == faults < MaxFaults
Failed == faults' = faults + 1

(***************************************************************************)
(* processExtraction.                                                      *)
(***************************************************************************)
\* the entries of the archive kept as Documents, in order, those at the
\* positions in skipped left out (their upload failed: skippedCount++)
RECURSIVE extracted(_, _, _)
extracted(entries, skipped, j) ==
  IF j > Len(entries) THEN <<>>
  ELSE IF accepted(entries[j]) /\ j \notin skipped
       THEN <<Document(entries[j])>> \o extracted(entries, skipped, j + 1)
       ELSE extracted(entries, skipped, j + 1)

\* the archive is unpacked entry by entry, the ledger saved, status
\* 'extracted', and processAnalysis entered
Extract(f) ==
  /\ flows[f].pc = "extract"
  /\ archive /= <<>>
  /\ \E skipped \in SUBSET (1..Len(archive[1])) :
       /\ Cardinality(skipped) <= MaxFaults - faults
       /\ faults' = faults + Cardinality(skipped)
       /\ LET documents == extracted(archive[1], skipped, 1)
          IN  /\ ledger' = <<NewQueueData(documents)>>
              /\ jobStatus' = updateJobStatus(
                   [ status |-> "extracted", totalDocuments |-> Len(documents),
                     processedCount |-> 0 ])
  /\ flows' = [ flows EXCEPT ![f].pc = "load" ]
  /\ UNCHANGED <<substrate, archive, metadata, tasks, errors, reqs, outsideOrch>>

\* the archive cannot be opened or read, or the ledger cannot be saved
ExtractFail(f) ==
  /\ flows[f].pc = "extract"
  /\ Fails /\ Failed
  /\ Throw(f)
  /\ UNCHANGED <<substrate, archive, ledger, metadata, jobStatus, reqs, outsideOrch>>

(***************************************************************************)
(* processAnalysis.                                                        *)
(***************************************************************************)
\* what analyzeDocument returns (it catches every error of its own):
\* success, whether data is a record, and data.confidence_score.  The
\* AI's answer is taken to be a JSON object (a bare null is not among them).
AIResults ==
  { [ success |-> TRUE,  data |-> TRUE, confidence |-> 80 ],
    [ success |-> TRUE,  data |-> TRUE, confidence |-> 0 ],
    [ success |-> FALSE, data |-> TRUE, confidence |-> 0 ] }

\* result.data with document_name set; an unsuccessful result carries
\* getFailedExtractionResult's record
ResultData(doc, result) ==
  [ document_name |-> doc.name,
    placeholder |-> ~result.success,
    confidence_score |-> result.confidence ]

\* the branch result.success && confidenceScore > 0
markCompleted(queueData, docIndex, doc, result) ==
  [ queueData EXCEPT !.results = Append(@, ResultData(doc, result)),
                     !.documents[docIndex].status = "completed" ]

\* the else branch: manual review
markFailed(queueData, docIndex, doc, result) ==
  [ queueData EXCEPT
      !.documents[docIndex].status = "failed",
      !.failedDocuments = Append(@,
         [ name |-> doc.name,
           reason |-> IF ~result.success THEN "API call failed"
                      ELSE "Zero confidence score" ]),
      !.results = IF result.data THEN Append(@, ResultData(doc, result)) ELSE @ ]

\* catch (docError)
catchDocError(queueData, docIndex, doc) ==
  [ queueData EXCEPT
      !.documents[docIndex].status = "failed",
      !.failedDocuments = Append(@, [ name |-> doc.name, reason |-> "docError.message" ]) ]

\* the try block up to queueData.processedCount = i + 1
handleResult(fl, result) ==
  LET marked == IF result.success /\ result.confidence > 0
                THEN markCompleted(fl.queueData, DocIndex(fl), CurrentDoc(fl), result)
                ELSE markFailed(fl.queueData, DocIndex(fl), CurrentDoc(fl), result)
  IN  [ marked EXCEPT !.processedCount = fl.i + 1 ]

\* (i + 1) % 5 === 0 || i === pendingDocs.length - 1 || pdfBuffer
saveDue(fl) ==
  \/ (fl.i + 1) % SAVE_EVERY = 0
  \/ fl.i = Len(fl.pendingDocs) - 1
  \/ IsLarge(CurrentDoc(fl))

\* the for loop's i++ with the flow's queueData replaced
nextDoc(fl, queueData) ==
  [ fl EXCEPT !.queueData = queueData,
              !.i = @ + 1,
              !.pc = IF fl.i + 1 < Len(fl.pendingDocs) THEN "doc" ELSE "final" ]

\* the ledger is loaded; with no pending Document the function returns
LoadQueue(f) ==
  /\ flows[f].pc = "load"
  /\ ledger /= <<>>
  /\ IF pendingDocs(ledger[1]) = <<>>
     THEN /\ Return(f)
          /\ UNCHANGED jobStatus
     ELSE /\ flows' = [ flows EXCEPT ![f] =
                 [ @ EXCEPT !.pc = "doc", !.queueData = ledger[1],
                            !.base = ledger[1],
                            !.pendingDocs = pendingDocs(ledger[1]), !.i = 0,
                            !.outcomes = <<>> ] ]
          /\ jobStatus' = updateJobStatus([ status |-> "processing" ])
          /\ UNCHANGED <<errors, tasks>>
  /\ UNCHANGED <<substrate, archive, ledger, metadata, reqs, faults, outsideOrch>>

\* the ledger is absent or cannot be read or parsed
LoadQueueFail(f) ==
  /\ flows[f].pc = "load"
  /\ \/ ledger = <<>> /\ faults' = faults
     \/ ledger /= <<>> /\ Fails /\ Failed
  /\ Throw(f)
  /\ UNCHANGED <<substrate, archive, ledger, metadata, jobStatus, reqs, outsideOrch>>

\* getFromS3(doc.key) throws: catch (docError), next Document
ReadDocFail(f) ==
  /\ flows[f].pc = "doc"
  /\ Fails /\ Failed
  /\ flows' = [ flows EXCEPT ![f] =
       [ nextDoc(@, catchDocError(@.queueData, DocIndex(@), CurrentDoc(@)))
           EXCEPT !.outcomes = Append(@, "read-error") ] ]
  /\ UNCHANGED <<substrate, archive, ledger, metadata, jobStatus, tasks, errors,
                 reqs, outsideOrch>>

Outcome(result) ==
  IF result.success /\ result.confidence > 0 THEN "completed"
  ELSE IF result.success THEN "zero-confidence" ELSE "unsuccessful"

\* getFromS3(doc.key) and analyzeDocument return; the Document is marked
\* and processedCount set
AnalyzeDoc(f) ==
  /\ flows[f].pc = "doc"
  /\ \E result \in AIResults :
       flows' = [ flows EXCEPT ![f] =
         [ @ EXCEPT !.queueData = handleResult(flows[f], result),
                    !.outcomes = Append(@, Outcome(result)),
                    !.pc = "save" ] ]
  /\ UNCHANGED <<substrate, archive, ledger, metadata, jobStatus, tasks, errors,
                 reqs, faults, outsideOrch>>

\* job.updateProgress returns; the ledger is saved when a save is due;
\* next Document
SaveProgress(f) ==
  /\ flows[f].pc = "save"
  /\ ledger' = IF saveDue(flows[f]) THEN <<flows[f].queueData>> ELSE ledger
  /\ flows' = [ flows EXCEPT ![f] = nextDoc(@, @.queueData) ]
  /\ UNCHANGED <<substrate, archive, metadata, jobStatus, tasks, errors, reqs,
                 faults, outsideOrch>>

\* job.updateProgress (BullMQ) or the periodic putJsonToS3 throws after the
\* Document was marked: catch (docError), next Document
SaveProgressFail(f) ==
  /\ flows[f].pc = "save"
  /\ substrate = "bullmq" \/ saveDue(flows[f])
  /\ Fails /\ Failed
  /\ flows' = [ flows EXCEPT ![f] =
       [ nextDoc(@, catchDocError(@.queueData, DocIndex(@), CurrentDoc(@)))
           EXCEPT !.outcomes = [ @ EXCEPT ![flows[f].i + 1] = "save-error" ] ] ]
  /\ UNCHANGED <<substrate, archive, ledger, metadata, jobStatus, tasks, errors,
                 reqs, outsideOrch>>

\* the final save, status 'analysis-complete', and processReportGeneration
\* is entered
FinalSave(f) ==
  /\ flows[f].pc = "final"
  /\ LET queueData == [ flows[f].queueData EXCEPT !.status = "analysis-complete" ]
     IN  /\ ledger' = <<queueData>>
         /\ flows' = [ flows EXCEPT ![f].queueData = queueData, ![f].pc = "report" ]
         /\ jobStatus' = updateJobStatus(
              [ status |-> "analysis-complete",
                processedCount |-> queueData.processedCount,
                failedCount |-> Len(queueData.failedDocuments) ])
  /\ UNCHANGED <<substrate, archive, metadata, tasks, errors, reqs, faults,
                 outsideOrch>>

\* the final putJsonToS3 throws
FinalSaveFail(f) ==
  /\ flows[f].pc = "final"
  /\ Fails /\ Failed
  /\ Throw(f)
  /\ UNCHANGED <<substrate, archive, ledger, metadata, jobStatus, reqs, outsideOrch>>

(***************************************************************************)
(* processReportGeneration.                                                *)
(***************************************************************************)
\* status 'generating-report', then the ledger is loaded (into the
\* queueData of processReportGeneration; the locals of processAnalysis are
\* used no more)
LoadResults(f) ==
  /\ flows[f].pc = "report"
  /\ ledger /= <<>>
  /\ jobStatus' = updateJobStatus([ status |-> "generating-report" ])
  /\ flows' = [ flows EXCEPT ![f] =
       [ IdleFlow EXCEPT !.pc = "generate", !.task = flows[f].task,
                         !.queueData = ledger[1] ] ]
  /\ UNCHANGED <<substrate, archive, ledger, metadata, tasks, errors, reqs, faults,
                 outsideOrch>>

\* status 'generating-report', then the ledger is absent or unreadable
LoadResultsFail(f) ==
  /\ flows[f].pc = "report"
  /\ \/ ledger = <<>> /\ faults' = faults
     \/ ledger /= <<>> /\ Fails /\ Failed
  /\ jobStatus' = updateJobStatus([ status |-> "generating-report" ])
  /\ Throw(f)
  /\ UNCHANGED <<substrate, archive, ledger, metadata, reqs, outsideOrch>>

\* generateAuditReport returns the report's key; the ledger and the
\* metadata are marked completed (a failure of the metadata update is only
\* logged); status 'completed'
GenerateReport(f) ==
  /\ flows[f].pc = "generate"
  /\ ledger' = <<[ flows[f].queueData EXCEPT !.status = "completed",
                                              !.reportKey = TRUE ]>>
  /\ \/ /\ metadata' = [ metadata EXCEPT !.status = "completed", !.reportKey = TRUE ]
        /\ faults' = faults
     \/ /\ Fails /\ Failed
        /\ metadata' = metadata
  /\ jobStatus' = updateJobStatus([ status |-> "completed", reportKey |-> TRUE ])
  /\ Return(f)
  /\ UNCHANGED <<substrate, archive, reqs, outsideOrch>>

\* generateAuditReport or the ledger's putJsonToS3 throws
GenerateReportFail(f) ==
  /\ flows[f].pc = "generate"
  /\ Fails /\ Failed
  /\ Throw(f)
  /\ UNCHANGED <<substrate, archive, ledger, metadata, jobStatus, reqs, outsideOrch>>

(***************************************************************************)
(* The host restarts: every running flow and the in-memory status map are  *)
(* lost; the in-memory queue is lost with them, a task the BullMQ worker   *)
(* was running is stalled and run again.                                   *)
(***************************************************************************)
RECURSIVE RunningTasks(_)
RunningTasks(f) ==
  IF f > MaxRequests THEN <<>>
  ELSE (IF Active(f) THEN <<flows[f].task>> ELSE <<>>) \o RunningTasks(f + 1)

Crash ==
  /\ Fails /\ Failed
  /\ flows' = [ f \in FlowIds |-> IdleFlow ]
  /\ jobStatus' = <<>>
  /\ tasks' = IF substrate = "bullmq" THEN RunningTasks(1) \o tasks ELSE <<>>
  /\ UNCHANGED <<substrate, archive, ledger, metadata, errors, reqs, outsideOrch>>

Next ==
  \/ Upload
  \/ UploadPdf
  \/ ReqExtract
  \/ ReqAnalyze
  \/ ResumeCompleted
  \/ ResumeReport
  \/ ResumeAnalysis
  \/ ReqGenerateReport
  \/ GetStatus
  \/ StartTask
  \/ Crash
  \/ \E f \in FlowIds :
       \/ Extract(f)
       \/ ExtractFail(f)
       \/ LoadQueue(f)
       \/ LoadQueueFail(f)
       \/ ReadDocFail(f)
       \/ AnalyzeDoc(f)
       \/ SaveProgress(f)
       \/ SaveProgressFail(f)
       \/ FinalSave(f)
       \/ FinalSaveFail(f)
       \/ LoadResults(f)
       \/ LoadResultsFail(f)
       \/ GenerateReport(f)
       \/ GenerateReportFail(f)

vars == <<orchVars, retryVars, pdfVars>>

Spec == Init /\ [][Next]_vars

(***************************************************************************)
(* executeWithRetry and analyzeChunk (claudeService.js).                   *)
(***************************************************************************)
\* RATE_LIMIT_CONFIG
maxRetries == 5
baseDelayMs == 2000
maxDelayMs == 120000
backoffMultiplier == 2
jitterMs == 1000

Min(a, b) == IF a < b THEN a ELSE b
Max(a, b) == IF a > b THEN a ELSE b

\* error.status of a failed invocation: an HTTP status, or NoStatus when the
\* error carries none (a network failure)
NoStatus == 0
Statuses == { 429, 529, 500, 400, 401, NoStatus }

\* error.headers['retry-after']: absent, not a number, or seconds
RetryAfterHeaders ==
  { [ present |-> FALSE, numeric |-> FALSE, seconds |-> 0 ],
    [ present |-> TRUE,  numeric |-> FALSE, seconds |-> 0 ],
    [ present |-> TRUE,  numeric |-> TRUE,  seconds |-> 130 ] }

\* Math.random() * jitterMs, in whole ms: from 0 to just below jitterMs
Jitters == { 0, jitterMs - 1 }

\* response.content[0].text: JSON, text with a JSON object inside, or neither;
\* response.usage.input_tokens
Responses ==
  { [ text |-> "json", input_tokens |-> 100 ],
    [ text |-> "embedded-json", input_tokens |-> 100 ],
    [ text |-> "no-json", input_tokens |-> 100 ] }

\* a backoff that does not grow with the attempt
calculateBackoffDelay_flat(n, jitter) ==
  Min(baseDelayMs, maxDelayMs) + jitter
\* calculateBackoffDelay(attempt), jitter being Math.random() * jitterMs
calculateBackoffDelay(n, jitter) ==
  Min(baseDelayMs * backoffMultiplier ^ n, maxDelayMs) + jitter

isRateLimited(status) == status = 429 \/ status = 529
isServerError(status) == status >= 500 /\ status < 600
\* a policy that retries the errors without a status (network failures) too
isRetryable_network(status) ==
  isRateLimited(status) \/ isServerError(status) \/ status = NoStatus
\* a retry rule that also retries client errors
isRetryable_any(status) == status >= 400
\* isRetryable = isRateLimited || isServerError
isRetryable(status) == isRateLimited(status) \/ isServerError(status)

\* delayMs after the Retry-After check
withRetryAfter(delay, header) ==
  IF header.present /\ header.numeric
  THEN Max(delay, header.seconds * 1000)
  ELSE delay

\* the orchestrator stands still while the retry loop is examined
OrchIdle ==
  /\ substrate = "memory"
  /\ archive = <<>>
  /\ ledger = <<>>
  /\ metadata = [ status |-> "created", reportKey |-> FALSE, resumeCount |-> 0 ]
  /\ jobStatus = <<CreatedJob>>
  /\ tasks = <<>>
  /\ flows = [ f \in FlowIds |-> IdleFlow ]
  /\ errors = 0
  /\ reqs = <<>>
  /\ faults = 0

\* analyzeChunk has built the request and enters executeWithRetry
RetryInit ==
  /\ rpc = "call"
  /\ attempt = 0
  /\ calls = 0
  /\ seen = <<>>
  /\ waits = <<>>
  /\ delayMs = 0
  /\ response = <<>>
  /\ unitResults = <<>>
  /\ unitTokens = 0
  /\ OrchIdle
  /\ PdfIdle

\* return await apiCall()
ApiCallReturns ==
  /\ rpc = "call"
  /\ attempt < maxRetries
  /\ calls' = calls + 1
  /\ \E r \in Responses : response' = <<r>>
  /\ rpc' = "responded"
  /\ UNCHANGED <<attempt, seen, waits, delayMs, unitResults, unitTokens, outsideRetry>>

\* apiCall throws an error that is not retryable, or the last attempt's error
ApiCallThrows ==
  /\ rpc = "call"
  /\ attempt < maxRetries
  /\ calls' = calls + 1
  /\ \E status \in Statuses :
       /\ ~isRetryable(status) \/ attempt = maxRetries - 1
       /\ seen' = Append(seen, status)
  /\ rpc' = "threw"
  /\ UNCHANGED <<attempt, waits, delayMs, response, unitResults, unitTokens,
                 outsideRetry>>

\* apiCall throws a retryable error before the last attempt: the delay is
\* computed
ApiCallRetryable ==
  /\ rpc = "call"
  /\ attempt < maxRetries
  /\ calls' = calls + 1
  /\ \E status \in Statuses, header \in RetryAfterHeaders, jitter \in Jitters :
       /\ isRetryable(status) /\ attempt /= maxRetries - 1
       /\ seen' = Append(seen, status)
       /\ delayMs' = withRetryAfter(calculateBackoffDelay(attempt, jitter), header)
  /\ rpc' = "sleep"
  /\ UNCHANGED <<attempt, waits, response, unitResults, unitTokens, outsideRetry>>

\* await sleep(delayMs); attempt++
Sleep ==
  /\ rpc = "sleep"
  /\ waits' = Append(waits, delayMs)
  /\ attempt' = attempt + 1
  /\ rpc' = "call"
  /\ UNCHANGED <<calls, seen, delayMs, response, unitResults, unitTokens,
                 outsideRetry>>

\* analyzeChunk parses the response; its caller records the unit:
\* results.push(result.data), totalInputTokens += result.tokenDetails.input
RecordUnit ==
  /\ rpc = "responded"
  /\ response[1].text \in { "json", "embedded-json" }
  /\ unitResults' = Append(unitResults, response[1].text)
  /\ unitTokens' = unitTokens + response[1].input_tokens
  /\ rpc' = "recorded"
  /\ UNCHANGED <<attempt, calls, seen, waits, delayMs, response, outsideRetry>>

\* 'No valid JSON found in response'
ParseThrows ==
  /\ rpc = "responded"
  /\ response[1].text = "no-json"
  /\ rpc' = "threw"
  /\ UNCHANGED <<attempt, calls, seen, waits, delayMs, response, unitResults,
                 unitTokens, outsideRetry>>

RetryNext ==
  \/ ApiCallReturns
  \/ ApiCallThrows
  \/ ApiCallRetryable
  \/ Sleep
  \/ RecordUnit
  \/ ParseThrows

SpecRetry == RetryInit /\ [][RetryNext]_vars

(***************************************************************************)
(* analyzePdf (pdfChunkService.js).                                        *)
(***************************************************************************)
\* PDF_CONFIG
MAX_BATCH_SIZE_MB == 8
MAX_PAGES_PER_BATCH == 5
MIN_TEXT_LENGTH == 500
MAX_TOTAL_PAGES == 500
TEXT_CHUNK_SIZE == 40000
\* avgTextPerPage < 100: the PDF is a scan
SCANNED_TEXT_PER_PAGE == 100

\* Math.ceil(a / b) for a >= 0, b > 0
Ceil(a, b) == (a + b - 1) \div b

Strategies == { "direct-text", "direct-pdf", "text-chunk", "page-split" }

\* A PDF buffer as the analyzer sees it: its size (MB), what pdf-parse reads
\* of it (numpages, the length of the trimmed text), and which reads
\* succeed: "text" (pdf-parse returns), "pages" (pdf-parse throws, pdf-lib
\* loads the document), "none" (both throw).
PdfBuffers ==
  [ sizeMB : { 1, 10, 11, 60 },
    numpages : { 0, 1, 3, 600 },
    textLength : { 0, 99, 500, 501, 200000 },
    readable : { "text", "pages", "none" } ]

hasText(pdfBuffer) == pdfBuffer.textLength > MIN_TEXT_LENGTH
\* avgTextPerPage = pageCount > 0 ? textLength / pageCount : 0
isScannedPdf(pdfBuffer) ==
  \/ ~hasText(pdfBuffer)
  \/ pdfBuffer.numpages = 0
  \/ pdfBuffer.textLength < SCANNED_TEXT_PER_PAGE * pdfBuffer.numpages

\* the if / else if chain that determines the processing strategy
strategy(pdfBuffer) ==
  IF pdfBuffer.sizeMB <= MAX_DIRECT_PDF_SIZE_MB /\ ~isScannedPdf(pdfBuffer)
  THEN "direct-text"
  ELSE IF pdfBuffer.sizeMB <= MAX_DIRECT_PDF_SIZE_MB
  THEN "direct-pdf"
  ELSE IF ~isScannedPdf(pdfBuffer) /\ pdfBuffer.textLength > MIN_TEXT_LENGTH
  THEN "text-chunk"
  ELSE "page-split"

\* Math.ceil(Math.min(pageCount, MAX_TOTAL_PAGES) / MAX_PAGES_PER_BATCH)
pageBatchEstimate(pageCount) ==
  Ceil(Min(pageCount, MAX_TOTAL_PAGES), MAX_PAGES_PER_BATCH)

estimatedChunks(pdfBuffer) ==
  IF strategy(pdfBuffer) = "page-split" THEN pageBatchEstimate(pdfBuffer.numpages)
  ELSE IF strategy(pdfBuffer) = "text-chunk"
  THEN Ceil(pdfBuffer.textLength, TEXT_CHUNK_SIZE)
  ELSE 1

\* the return of the try block (warning, error: whether the field is set)
normalAnalysis(pdfBuffer) ==
  [ fileSizeMB |-> pdfBuffer.sizeMB, pageCount |-> pdfBuffer.numpages,
    hasText |-> hasText(pdfBuffer), textLength |-> pdfBuffer.textLength,
    isScannedPdf |-> isScannedPdf(pdfBuffer), strategy |-> strategy(pdfBuffer),
    estimatedChunks |-> estimatedChunks(pdfBuffer),
    warning |-> FALSE, error |-> FALSE ]

\* the fallback: pdf-lib's page count only
pageCountFallback(pdfBuffer) ==
  [ fileSizeMB |-> pdfBuffer.sizeMB, pageCount |-> pdfBuffer.numpages,
    hasText |-> FALSE, textLength |-> 0, isScannedPdf |-> TRUE,
    strategy |-> "page-split",
    estimatedChunks |-> pageBatchEstimate(pdfBuffer.numpages),
    warning |-> TRUE, error |-> FALSE ]

\* a complete fallback that gives no strategy
completeFallback_none(pdfBuffer) ==
  [ fileSizeMB |-> pdfBuffer.sizeMB, pageCount |-> 0,
    hasText |-> FALSE, textLength |-> 0, isScannedPdf |-> TRUE,
    strategy |-> "none", estimatedChunks |-> 1,
    warning |-> FALSE, error |-> FALSE ]
\* the complete fallback: neither library reads the buffer
completeFallback(pdfBuffer) ==
  [ fileSizeMB |-> pdfBuffer.sizeMB, pageCount |-> 0,
    hasText |-> FALSE, textLength |-> 0, isScannedPdf |-> TRUE,
    strategy |-> "direct-pdf", estimatedChunks |-> 1,
    warning |-> FALSE, error |-> TRUE ]

analyzePdf(pdfBuffer) ==
  CASE pdfBuffer.readable = "text" -> normalAnalysis(pdfBuffer)
    [] pdfBuffer.readable = "pages" -> pageCountFallback(pdfBuffer)
    [] pdfBuffer.readable = "none" -> completeFallback(pdfBuffer)

\* one call of analyzePdf
AnalyzePdfInit ==
  /\ call \in { [ fn |-> "analyzePdf", pdfBuffer |-> b ] : b \in PdfBuffers }
  /\ ret = <<>>
  /\ large = NoLargePdf
  /\ OrchIdle
  /\ RetryIdle

AnalyzePdf ==
  /\ call.fn = "analyzePdf"
  /\ ret = <<>>
  /\ ret' = <<analyzePdf(call.pdfBuffer)>>
  /\ UNCHANGED <<call, large, outsidePdf>>

SpecAnalyzePdf == AnalyzePdfInit /\ [][AnalyzePdf]_vars

(***************************************************************************)
(* extractTextChunks (pdfChunkService.js).                                 *)
(*                                                                         *)
(* A string is a sequence of runs: [ws, n, para] is n characters, white    *)
(* space or not, of paragraph para (para = 0: a "\n\n" the function put    *)
(* in).  A paragraph, one element of fullText.split(/\n\s*\n/), is         *)
(* [lead, body, trail]: lead characters of white space, then body          *)
(* characters from the first to the last character that is not white       *)
(* space, then trail characters of white space.                            *)
(***************************************************************************)
\* the longest text, in paragraphs
MaxParagraphs == 5

\* the paragraphs a text is made of; only the first and the last element of
\* a split can be empty or all white space
Blank(paragraph) == paragraph.body = 0
ParagraphKinds ==
  { [ lead |-> 0, body |-> 0, trail |-> 0 ],
    [ lead |-> 1, body |-> 0, trail |-> 0 ],
    [ lead |-> 1, body |-> 10000, trail |-> 1 ],
    [ lead |-> 0, body |-> 10000, trail |-> 0 ],
    [ lead |-> 0, body |-> 20000, trail |-> 0 ],
    [ lead |-> 0, body |-> 39998, trail |-> 0 ],
    [ lead |-> 0, body |-> 40000, trail |-> 0 ],
    [ lead |-> 0, body |-> 200000, trail |-> 0 ] }
Texts ==
  { t \in SeqsUpTo(ParagraphKinds, MaxParagraphs) :
      /\ t /= <<>>
      /\ \A k \in 2..(Len(t) - 1) : ~Blank(t[k]) }

Run(ws, n, para) == IF n > 0 THEN << [ ws |-> ws, n |-> n, para |-> para ] >> ELSE <<>>
\* paragraph k of the text as a string
paragraphString(paragraphs, k) ==
  Run(TRUE, paragraphs[k].lead, k) \o Run(FALSE, paragraphs[k].body, k)
    \o Run(TRUE, paragraphs[k].trail, k)
\* '\n\n'
separator == Run(TRUE, 2, 0)

\* s.length
RECURSIVE length(_)
length(s) == IF s = <<>> THEN 0 ELSE Head(s).n + length(Tail(s))

\* s.trim()
RECURSIVE trimStart(_)
trimStart(s) == IF s /= <<>> /\ Head(s).ws THEN trimStart(Tail(s)) ELSE s
RECURSIVE trimEnd(_)
trimEnd(s) ==
  IF s /= <<>> /\ s[Len(s)].ws THEN trimEnd(SubSeq(s, 1, Len(s) - 1)) ELSE s
trim(s) == trimEnd(trimStart(s))

\* chunks.push({ index, type: 'text', content, charCount })
pushChunk(chunks, currentChunk) ==
  Append(chunks, [ index |-> Len(chunks), content |-> trim(currentChunk),
                   charCount |-> length(currentChunk) ])

\* an append that keeps only the new paragraph
appendParagraph_overwrite(currentChunk, paragraph) == paragraph
\* currentChunk += (currentChunk ? '\n\n' : '') + paragraph
appendParagraph(currentChunk, paragraph) ==
  currentChunk \o (IF currentChunk /= <<>> THEN separator ELSE <<>>) \o paragraph

\* the for loop over the paragraphs from paragraph k on, and the last chunk
RECURSIVE chunkLoop(_, _, _, _, _)
chunkLoop(paragraphs, chunkSize, k, chunks, currentChunk) ==
  IF k > Len(paragraphs)
  THEN IF length(trim(currentChunk)) > 0
       THEN pushChunk(chunks, currentChunk)
       ELSE chunks
  ELSE LET paragraph == paragraphString(paragraphs, k) IN
       IF length(currentChunk) + length(paragraph) > chunkSize
          /\ length(currentChunk) > 0
       THEN chunkLoop(paragraphs, chunkSize, k + 1,
                      pushChunk(chunks, currentChunk), paragraph)
       ELSE chunkLoop(paragraphs, chunkSize, k + 1, chunks,
                      appendParagraph(currentChunk, paragraph))

\* extractTextChunks on a buffer whose text splits into paragraphs
extractTextChunks(paragraphs, chunkSize) ==
  IF \A k \in 1..Len(paragraphs) : Blank(paragraphs[k])
  THEN <<>>
  ELSE chunkLoop(paragraphs, chunkSize, 1, <<>>, <<>>)

\* one call of extractTextChunks, with the default chunkSize
ChunksInit ==
  /\ call \in { [ fn |-> "extractTextChunks", paragraphs |-> t,
                  chunkSize |-> TEXT_CHUNK_SIZE ] : t \in Texts }
  /\ ret = <<>>
  /\ large = NoLargePdf
  /\ OrchIdle
  /\ RetryIdle

ExtractTextChunks ==
  /\ call.fn = "extractTextChunks"
  /\ ret = <<>>
  /\ ret' = <<extractTextChunks(call.paragraphs, call.chunkSize)>>
  /\ UNCHANGED <<call, large, outsidePdf>>

SpecChunks == ChunksInit /\ [][ExtractTextChunks]_vars

(***************************************************************************)
(* splitPdfIntoBatches (pdfChunkService.js).                               *)
(*                                                                         *)
(* A PDF is its number of pages, the size of one page in MB (a document    *)
(* of k pages saves to k times that), whether pdf-lib loads it, the        *)
(* batches whose bulk copy or save throws (named by their first page) and  *)
(* the pages whose single copy or save throws.                             *)
(***************************************************************************)
\* the longest PDF whose copy failures are enumerated, in pages
MaxPages == 6
PageSizesMB == { 1, 5, 9 }
Pdfs ==
  [ totalPages : 1..MaxPages, pageMB : PageSizesMB, loads : BOOLEAN,
    bulkFails : SUBSET (1..MaxPages), pageFails : SUBSET (1..MaxPages) ]
SplitInputs ==
  { p \in Pdfs : /\ p.bulkFails \subseteq 1..p.totalPages
                 /\ p.pageFails \subseteq 1..p.totalPages
                 /\ ~p.loads => (p.bulkFails = {} /\ p.pageFails = {}) }

\* the for loop over currentBatchPages that copies the pages one by one; a
\* page whose copy throws is logged and left out
RECURSIVE singlePages(_, _, _)
singlePages(pdf, batches, pages) ==
  IF pages = <<>> THEN batches
  ELSE LET pi == Head(pages) IN
       IF (pi + 1) \in pdf.pageFails
       THEN singlePages(pdf, batches, Tail(pages))
       ELSE singlePages(pdf,
              Append(batches, [ batchIndex |-> Len(batches),
                                startPage |-> pi + 1, endPage |-> pi + 1,
                                totalPages |-> pdf.totalPages, pageCount |-> 1,
                                size |-> pdf.pageMB ]),
              Tail(pages))

\* a finalization that emits the materialized batch whatever its size
finalizeBatch_anySize(pdf, batches, currentBatchPages, currentBatchStartPage, pageIndex) ==
  IF (currentBatchStartPage + 1) \in pdf.bulkFails
  THEN singlePages(pdf, batches, currentBatchPages)
  ELSE Append(batches, [ batchIndex |-> Len(batches),
                         startPage |-> currentBatchStartPage + 1,
                         endPage |-> pageIndex + 1,
                         totalPages |-> pdf.totalPages,
                         pageCount |-> Len(currentBatchPages),
                         size |-> Len(currentBatchPages) * pdf.pageMB ])
\* the try block that closes the batch of currentBatchPages at pageIndex
finalizeBatch(pdf, batches, currentBatchPages, currentBatchStartPage, pageIndex) ==
  LET batchSizeMB == Len(currentBatchPages) * pdf.pageMB IN
  IF (currentBatchStartPage + 1) \in pdf.bulkFails
  THEN singlePages(pdf, batches, currentBatchPages)
  ELSE IF batchSizeMB > MAX_BATCH_SIZE_MB /\ Len(currentBatchPages) > 1
  THEN singlePages(pdf, batches, currentBatchPages)
  ELSE Append(batches, [ batchIndex |-> Len(batches),
                         startPage |-> currentBatchStartPage + 1,
                         endPage |-> pageIndex + 1,
                         totalPages |-> pdf.totalPages,
                         pageCount |-> Len(currentBatchPages),
                         size |-> batchSizeMB ])

\* the for loop over pageIndex
RECURSIVE batchLoop(_, _, _, _, _, _)
batchLoop(pdf, pagesPerBatch, pageIndex, batches, currentBatchPages, currentBatchStartPage) ==
  LET maxPages == Min(pdf.totalPages, MAX_TOTAL_PAGES)
      pushed == Append(currentBatchPages, pageIndex)
      shouldFinalize == Len(pushed) >= pagesPerBatch \/ pageIndex = maxPages - 1
  IN IF pageIndex >= maxPages THEN batches
     ELSE IF shouldFinalize /\ Len(pushed) > 0
     THEN batchLoop(pdf, pagesPerBatch, pageIndex + 1,
                    finalizeBatch(pdf, batches, pushed, currentBatchStartPage,
                                  pageIndex),
                    <<>>, pageIndex + 1)
     ELSE batchLoop(pdf, pagesPerBatch, pageIndex + 1, batches, pushed,
                    currentBatchStartPage)

\* splitPdfIntoBatches: the batches, or the error of PDFDocument.load
splitPdfIntoBatches(pdf, pagesPerBatch) ==
  IF ~pdf.loads
  THEN [ threw |-> TRUE, batches |-> <<>> ]
  ELSE [ threw |-> FALSE,
         batches |-> batchLoop(pdf, pagesPerBatch, 0, <<>>, <<>>, 0) ]

\* one call of splitPdfIntoBatches
BatchesInit ==
  /\ call \in [ fn : { "splitPdfIntoBatches" }, pdf : SplitInputs,
                pagesPerBatch : { MAX_PAGES_PER_BATCH, 2 } ]
  /\ ret = <<>>
  /\ large = NoLargePdf
  /\ OrchIdle
  /\ RetryIdle

SplitPdfIntoBatches ==
  /\ call.fn = "splitPdfIntoBatches"
  /\ ret = <<>>
  /\ ret' = <<splitPdfIntoBatches(call.pdf, call.pagesPerBatch)>>
  /\ UNCHANGED <<call, large, outsidePdf>>

SpecBatches == BatchesInit /\ [][SplitPdfIntoBatches]_vars

(***************************************************************************)
(* mergeExtractionResults (pdfChunkService.js).                            *)
(*                                                                         *)
(* An extraction record keeps one field of each class the merge treats     *)
(* alike: property_address (concatenated; its value is the sequence of     *)
(* the parts joined by "; "), risk_rating, enforceability_decision,        *)
(* subsequent_charges (yes overrides), borrower_name (first valid value)   *)
(* and confidence_score.  "" and <<>> are an absent or empty string,       *)
(* Undefined a confidence_score that is not a number, and _chunked FALSE   *)
(* and _chunks_processed 0 are these fields absent.                        *)
(***************************************************************************)
\* the most results merged in one call
MaxUnits == 3

null == [ isNull |-> TRUE ]

riskPriority == << "High", "Medium", "Low", "Manual Review Required", "Unknown" >>
enforceabilityPriority ==
  << "Not Enforceable", "Enforceable with Conditions", "Enforceable",
     "Manual Review Required", "Unknown" >>

baseRecord ==
  [ property_address |-> << "Plot 1" >>, risk_rating |-> "Low",
    enforceability_decision |-> "Enforceable", subsequent_charges |-> "No",
    borrower_name |-> "Unknown", confidence_score |-> 80,
    _chunked |-> FALSE, _chunks_processed |-> 0 ]

\* the records the model of the AI returns: the base record with one field
\* changed
Records ==
  { [ baseRecord EXCEPT !.risk_rating = v ] :
      v \in { "High", "Medium", "Low", "Manual Review Required", "Unknown",
              "Critical", "" } }
  \cup
  { [ baseRecord EXCEPT !.enforceability_decision = v ] :
      v \in { "Not Enforceable", "Enforceable with Conditions", "Enforceable",
              "Manual Review Required", "Unknown", "Void", "" } }
  \cup
  { [ baseRecord EXCEPT !.confidence_score = v ] :
      v \in { 60, 61, 80, 100, Undefined } }
  \cup
  { [ baseRecord EXCEPT !.subsequent_charges = v ] :
      v \in { "Yes", "yes - second charge", "No", "" } }
  \cup
  { [ baseRecord EXCEPT !.borrower_name = v ] :
      v \in { "Unknown", "Not in this section", "A Kumar", "B Rao", "" } }
  \cup
  { [ baseRecord EXCEPT !.property_address = v ] :
      v \in { <<>>, << "Unknown" >>, << "Plot 1" >>, << "Plot 2" >> } }

\* list.indexOf(v)
indexOf(list, v) ==
  IF \E i \in 1..Len(list) : list[i] = v
  THEN (CHOOSE i \in 1..Len(list) :
          list[i] = v /\ \A j \in 1..(i - 1) : list[j] /= v) - 1
  ELSE -1

\* v && v !== 'Unknown' && v !== 'Not in this section', on a concatenated field
givenParts(v) == v /= <<>> /\ v /= << "Unknown" >> /\ v /= << "Not in this section" >>
\* the same test on a plain string
givenString(v) == v /= "" /\ v /= "Unknown" /\ v /= "Not in this section"

\* a.includes(b), for strings that are parts joined by "; " where no part
\* holds another
includes(a, b) ==
  \E i \in 1..(Len(a) - Len(b) + 1) : SubSeq(a, i, i + Len(b) - 1) = b

\* the concatenate step on one field
concatenate(mergedValue, resultValue) ==
  IF givenParts(resultValue)
  THEN IF givenParts(mergedValue)
       THEN IF ~includes(mergedValue, resultValue)
            THEN mergedValue \o resultValue
            ELSE mergedValue
       ELSE resultValue
  ELSE mergedValue

\* a step that takes the rating of the later result whenever it is listed
takeWorst_latest(priority, mergedValue, resultValue) ==
  IF indexOf(priority, resultValue) /= -1 THEN resultValue ELSE mergedValue
\* the take-worst step on risk_rating and enforceability_decision
takeWorst(priority, mergedValue, resultValue) ==
  LET currentIndex == indexOf(priority, mergedValue)
      newIndex == indexOf(priority, resultValue)
  IN IF newIndex /= -1 /\ (currentIndex = -1 \/ newIndex < currentIndex)
     THEN resultValue
     ELSE mergedValue

\* v.toLowerCase().startsWith('yes')
startsWithYes(v) == v \in { "Yes", "YES", "yes", "yes - second charge" }
\* a step in which the later unit's value wins whenever it has one
yesOverrides_latest(mergedValue, resultValue) ==
  IF resultValue /= "" THEN resultValue ELSE mergedValue
\* the yes-overrides step on one field
yesOverrides(mergedValue, resultValue) ==
  IF resultValue /= "" /\ startsWithYes(resultValue)
  THEN resultValue
  ELSE mergedValue

\* a step in which the later unit's value wins whenever it is given
firstValid_latest(mergedValue, resultValue) ==
  IF givenString(resultValue) THEN resultValue ELSE mergedValue
\* the first-valid step on one field
firstValid(mergedValue, resultValue) ==
  IF ~givenString(mergedValue) /\ givenString(resultValue)
  THEN resultValue
  ELSE mergedValue

\* one pass of the for loop: result i merged into merged
mergeOne(merged, result) ==
  [ merged EXCEPT
      !.property_address = concatenate(@, result.property_address),
      !.risk_rating = takeWorst(riskPriority, @, result.risk_rating),
      !.enforceability_decision =
          takeWorst(enforceabilityPriority, @, result.enforceability_decision),
      !.subsequent_charges = yesOverrides(@, result.subsequent_charges),
      !.borrower_name = firstValid(@, result.borrower_name) ]

\* the for loop from result i on
RECURSIVE mergeLoop(_, _, _)
mergeLoop(merged, validResults, i) ==
  IF i > Len(validResults) THEN merged
  ELSE mergeLoop(mergeOne(merged, validResults[i]), validResults, i + 1)

\* Math.round(num / den) for num >= 0 and den > 0
round(num, den) == (2 * num + den) \div (2 * den)

RECURSIVE sum(_)
sum(s) == IF s = <<>> THEN 0 ELSE Head(s) + sum(Tail(s))

\* the scores that are numbers
confidenceScores(validResults) ==
  LET scores == [ i \in 1..Len(validResults) |-> validResults[i].confidence_score ]
  IN SelectSeq(scores, LAMBDA c : c /= Undefined)

\* the average confidence, when a score is a number
averageConfidence(merged, validResults) ==
  LET scores == confidenceScores(validResults) IN
  IF Len(scores) > 0
  THEN [ merged EXCEPT !.confidence_score = round(sum(scores), Len(scores)) ]
  ELSE merged

\* the merge of two or more results
mergeAll(validResults) ==
  [ averageConfidence(mergeLoop(validResults[1], validResults, 2), validResults)
      EXCEPT !._chunked = TRUE, !._chunks_processed = Len(validResults) ]

\* a single result that goes through the merge
singleResult_merged(validResults) == mergeAll(validResults)
\* if (validResults.length === 1) return validResults[0]
singleResult(validResults) == validResults[1]

mergeExtractionResults(results) ==
  LET validResults == SelectSeq(results, LAMBDA r : r /= null) IN
  IF Len(results) = 0 THEN null
  ELSE IF Len(validResults) = 0 THEN null
  ELSE IF Len(validResults) = 1 THEN singleResult(validResults)
  ELSE mergeAll(validResults)

\* one call of mergeExtractionResults
MergeInit ==
  /\ call \in [ fn : { "mergeExtractionResults" },
                results : SeqsUpTo(Records \cup { null }, MaxUnits) ]
  /\ ret = <<>>
  /\ large = NoLargePdf
  /\ OrchIdle
  /\ RetryIdle

MergeExtractionResults ==
  /\ call.fn = "mergeExtractionResults"
  /\ ret = <<>>
  /\ ret' = <<mergeExtractionResults(call.results)>>
  /\ UNCHANGED <<call, large, outsidePdf>>

SpecMerge == MergeInit /\ [][MergeExtractionResults]_vars

(***************************************************************************)
(* analyzeDocument on one large PDF (claudeService.js: analyzeDocument,    *)
(* processLargePdf) and the recording of its result by processAnalysis     *)
(* (worker).  The document is what analyzePdf, extractTextChunks and       *)
(* splitPdfIntoBatches read from the same buffer; large holds the locals   *)
(* of processLargePdf and the value it returns.                            *)
(***************************************************************************)
\* the waits after a text chunk and after a page batch, in ms
TEXT_CHUNK_WAIT_MS == 500
PAGE_BATCH_WAIT_MS == 1500

\* a text that is one paragraph of 200,000 characters
OneParagraphText == << [ lead |-> 0, body |-> 200000, trail |-> 0 ] >>
\* two paragraphs: 99,999 + 2 + 99,999 characters
TwoParagraphText ==
  [ k \in 1..2 |-> [ lead |-> 0, body |-> 99999, trail |-> 0 ] ]
\* five paragraphs: 4 * 39,998 + 40,000 + 4 * 2 characters
FiveParagraphText ==
  [ k \in 1..5 |-> [ lead |-> 0, body |-> IF k = 5 THEN 40000 ELSE 39998,
                     trail |-> 0 ] ]
\* no text at all
NoText == << [ lead |-> 0, body |-> 0, trail |-> 0 ] >>

\* pdfData.text.trim().length, the paragraphs one blank line apart
RECURSIVE joined(_, _)
joined(paragraphs, k) ==
  IF k > Len(paragraphs) THEN <<>>
  ELSE (IF k > 1 THEN separator ELSE <<>>) \o paragraphString(paragraphs, k)
         \o joined(paragraphs, k + 1)
fullTextLength(paragraphs) == length(trim(joined(paragraphs, 1)))

\* the large PDFs analysed: scanned ones of 3 pages and 25 MB, whose pages
\* make up the file (8 MB each) or not (1 MB each), and text ones of 100
\* pages and 60 MB
LargeDocs ==
  { d \in [ sizeMB : { 25 }, numpages : { 3 }, paragraphs : { NoText },
            readable : { "text", "pages", "none" }, pageMB : { 1, 8 },
            bulkFails : { {}, { 1 } }, pageFails : { {}, { 2 } } ] :
      d.readable = "none" => (d.bulkFails = {} /\ d.pageFails = {}) }
  \cup
  [ sizeMB : { 60 }, numpages : { 100 },
    paragraphs : { OneParagraphText, TwoParagraphText, FiveParagraphText },
    readable : { "text" }, pageMB : { 1 }, bulkFails : { {} },
    pageFails : { {} } ]

\* the buffer as analyzePdf reads it
pdfBufferOf(doc) ==
  [ sizeMB |-> doc.sizeMB, numpages |-> doc.numpages,
    textLength |-> fullTextLength(doc.paragraphs), readable |-> doc.readable ]
\* the buffer as splitPdfIntoBatches reads it
pdfOf(doc) ==
  [ totalPages |-> doc.numpages, pageMB |-> doc.pageMB,
    loads |-> doc.readable /= "none", bulkFails |-> doc.bulkFails,
    pageFails |-> doc.pageFails ]

\* what the AI answers for one unit: a record, or JSON that is no record
UnitAnswers ==
  { [ baseRecord EXCEPT !.risk_rating = v ] : v \in { "High", "Medium", "Low" } }
  \cup { null }

getFailedExtractionResult ==
  [ property_address |-> << "Unknown" >>,
    risk_rating |-> "Manual Review Required",
    enforceability_decision |-> "Manual Review Required",
    subsequent_charges |-> "Unknown", borrower_name |-> "Unknown",
    confidence_score |-> 0, _chunked |-> FALSE, _chunks_processed |-> 0 ]

\* the object the catch blocks and the empty-results branch return
failedResult ==
  [ success |-> FALSE, data |-> getFailedExtractionResult,
    chunksProcessed |-> 0, strategy |-> "" ]

\* the units of the switch: the text chunks, or the page batches (also when
\* no text chunk came out); threw when the split or the switch throws
unitsOf(doc, strategyName) ==
  LET textChunks == extractTextChunks(doc.paragraphs, TEXT_CHUNK_SIZE)
      split == splitPdfIntoBatches(pdfOf(doc), MAX_PAGES_PER_BATCH)
  IN IF strategyName = "text-chunk" /\ Len(textChunks) > 0
     THEN [ threw |-> FALSE, strategy |-> "text-chunk", units |-> textChunks ]
     ELSE IF strategyName \in { "text-chunk", "page-split" }
     THEN [ threw |-> split.threw, strategy |-> "page-split",
            units |-> split.batches ]
     ELSE [ threw |-> TRUE, strategy |-> strategyName, units |-> <<>> ]

LargePdfInit ==
  /\ call \in [ fn : { "analyzeDocument" }, doc : LargeDocs ]
  /\ ret = <<>>
  /\ large = NoLargePdf
  /\ OrchIdle
  /\ RetryIdle

\* analyzeDocument up to the first unit: the size test, analyzePdf, and the
\* switch of processLargePdf
ProcessLargePdf ==
  /\ call.fn = "analyzeDocument"
  /\ large.pc = "idle"
  /\ call.doc.sizeMB > MAX_DIRECT_PDF_SIZE_MB
  /\ LET analysis == analyzePdf(pdfBufferOf(call.doc))
         switch == unitsOf(call.doc, analysis.strategy)
     IN large' = [ pc |-> IF switch.threw THEN "returned" ELSE "units",
                   strategy |-> switch.strategy, units |-> switch.units,
                   i |-> 0, results |-> <<>>, invocations |-> 0,
                   waits |-> <<>>, result |-> failedResult ]
  /\ UNCHANGED <<call, ret, outsidePdf>>

\* the wait after a unit of this strategy
unitWait(strategyName) ==
  IF strategyName = "text-chunk" THEN TEXT_CHUNK_WAIT_MS ELSE PAGE_BATCH_WAIT_MS

\* analyzeChunk returns for unit i: its data is pushed, then the wait
AnalyzeChunkReturns(data) ==
  /\ large.pc = "units"
  /\ large.i < Len(large.units)
  /\ large' = [ large EXCEPT !.results = Append(@, data),
                             !.waits = Append(@, unitWait(large.strategy)),
                             !.invocations = @ + 1,
                             !.i = @ + 1 ]
  /\ UNCHANGED <<call, ret, outsidePdf>>

\* analyzeChunk throws for unit i: logged, the loop goes on
AnalyzeChunkThrows ==
  /\ large.pc = "units"
  /\ large.i < Len(large.units)
  /\ large' = [ large EXCEPT !.invocations = @ + 1, !.i = @ + 1 ]
  /\ UNCHANGED <<call, ret, outsidePdf>>

\* after the loop: no result, or the merge; a merge that gives null makes
\* the progress report throw, which the catch turns into the failed result
MergeResults ==
  /\ large.pc = "units"
  /\ large.i = Len(large.units)
  /\ LET mergedResult == mergeExtractionResults(large.results) IN
     large' = [ large EXCEPT
       !.pc = "returned",
       !.result = IF Len(large.results) = 0 \/ mergedResult = null
                  THEN failedResult
                  ELSE [ success |-> TRUE, data |-> mergedResult,
                         chunksProcessed |-> Len(large.results),
                         strategy |-> large.strategy ] ]
  /\ UNCHANGED <<call, ret, outsidePdf>>

\* processAnalysis records the result of analyzeDocument for the Document
RecordResult ==
  /\ large.pc = "returned"
  /\ ret = <<>>
  /\ LET result == large.result IN
     ret' = IF result.success /\ result.data.confidence_score > 0
            THEN << [ status |-> "completed",
                      _processing_strategy |->
                        IF result.chunksProcessed /= 0 THEN result.strategy ELSE "",
                      data |-> IF result.chunksProcessed /= 0
                               THEN [ result.data EXCEPT
                                        !._chunks_processed = result.chunksProcessed ]
                               ELSE result.data ] >>
            ELSE << [ status |-> "failed", _processing_strategy |-> "",
                      data |-> result.data ] >>
  /\ UNCHANGED <<call, large, outsidePdf>>

LargePdfNext ==
  \/ ProcessLargePdf
  \/ \E data \in UnitAnswers : AnalyzeChunkReturns(data)
  \/ AnalyzeChunkThrows
  \/ MergeResults
  \/ RecordResult

SpecLargePdf == LargePdfInit /\ [][LargePdfNext]_vars

(***************************************************************************)
(* The job when every storage, queue and AI call returns and the host      *)
(* keeps running: the steps of Spec in which nothing fails.  A queued task *)
(* is started and a started task goes on (the in-memory timer fires, the   *)
(* BullMQ worker polls, every awaited call returns): weak fairness of the  *)
(* substrate's steps.  Requests come when the client sends them.           *)
(***************************************************************************)
NoFailure(A) == A /\ faults' = faults

SubstrateStep ==
  \/ StartTask
  \/ \E f \in FlowIds :
       \/ Extract(f)
       \/ LoadQueue(f)
       \/ LoadQueueFail(f)
       \/ AnalyzeDoc(f)
       \/ SaveProgress(f)
       \/ FinalSave(f)
       \/ LoadResults(f)
       \/ LoadResultsFail(f)
       \/ GenerateReport(f)

NextLive ==
  \/ NoFailure(Upload)
  \/ NoFailure(UploadPdf)
  \/ NoFailure(ReqExtract)
  \/ NoFailure(ReqAnalyze)
  \/ NoFailure(ResumeCompleted)
  \/ NoFailure(ResumeReport)
  \/ NoFailure(ResumeAnalysis)
  \/ NoFailure(ReqGenerateReport)
  \/ NoFailure(GetStatus)
  \/ NoFailure(StartTask)
  \/ \E f \in FlowIds :
       \/ NoFailure(Extract(f))
       \/ NoFailure(LoadQueue(f))
       \/ NoFailure(LoadQueueFail(f))
       \/ NoFailure(AnalyzeDoc(f))
       \/ NoFailure(SaveProgress(f))
       \/ NoFailure(FinalSave(f))
       \/ NoFailure(LoadResults(f))
       \/ NoFailure(LoadResultsFail(f))
       \/ NoFailure(GenerateReport(f))

SpecLive == Init /\ [][NextLive]_vars /\ WF_vars(NoFailure(SubstrateStep))

(***************************************************************************)
(* The tasks of a job run one at a time and in the order they were added,  *)
(* as by the BullMQ worker (concurrency 1), none of them failing: the      *)
(* ledgers that can be in storage when the last one has returned.  A       *)
(* ledger is <<>> (no queue.json) or <<queueData>>.                        *)
(***************************************************************************)
\* the for loop of processAnalysis from Document i on: queueData when the
\* loop is left, for every result analyzeDocument may return
RECURSIVE passLedgers(_)
passLedgers(fl) ==
  IF fl.i >= Len(fl.pendingDocs) THEN { fl.queueData }
  ELSE UNION { passLedgers(nextDoc(fl, handleResult(fl, result))) : result \in AIResults }

\* processReportGeneration on queueData
reportLedger(queueData) ==
  [ queueData EXCEPT !.status = "completed", !.reportKey = TRUE ]

\* processAnalysis on queueData: nothing without a pending Document, else
\* the loop, 'analysis-complete' and processReportGeneration
analysisLedgers(queueData) ==
  IF pendingDocs(queueData) = <<>> THEN { queueData }
  ELSE { reportLedger([ q EXCEPT !.status = "analysis-complete" ]) :
           q \in passLedgers([ IdleFlow EXCEPT !.queueData = queueData,
                                               !.pendingDocs = pendingDocs(queueData) ]) }

\* processJob(job) for a task of the given type on the stored ledger l; a
\* task that would throw (no archive, no queue.json) leaves no ledger here
taskLedgers(type, l) ==
  CASE type = "extract" ->
         IF archive = <<>> THEN {}
         ELSE { <<q>> : q \in analysisLedgers(NewQueueData(extracted(archive[1], {}, 1))) }
    [] type = "analyze" ->
         IF l = <<>> THEN {} ELSE { <<q>> : q \in analysisLedgers(l[1]) }
    [] type = "generate-report" ->
         IF l = <<>> THEN {} ELSE { <<reportLedger(l[1])>> }

\* the worker takes the tasks one after the other
RECURSIVE workerLedgers(_, _)
workerLedgers(types, l) ==
  IF types = <<>> THEN { l }
  ELSE UNION { workerLedgers(Tail(types), l2) : l2 \in taskLedgers(Head(types), l) }

\* the tasks the answered requests have added, in order
RECURSIVE addedTasks(_)
addedTasks(answers) ==
  IF answers = <<>> THEN <<>>
  ELSE (CASE Head(answers) = "extract" -> <<"extract">>
          [] Head(answers) \in { "analyze", "resume: analysis resumed" } -> <<"analyze">>
          [] Head(answers) \in { "generate-report", "resume: generating report" } ->
               <<"generate-report">>
          [] OTHER -> <<>>)
       \o addedTasks(Tail(answers))

\* the ledger before the first task: none when an archive was uploaded,
\* else the one upload-pdf wrote
uploadedLedgers ==
  IF archive /= <<>> THEN { <<>> }
  ELSE { <<NewQueueData(<<Document(file)>>)>> : file \in Files }

(***************************************************************************)
(* One analyze pass over a longer archive: a job whose archive has up to   *)
(* MaxPassDocs small files with names of their own, extracted once; one    *)
(* read of a Document may fail.  The steps are those of Spec.              *)
(***************************************************************************)
\* the longest archive of this specification
MaxPassDocs == 6
PassNames == << "a.pdf", "b.pdf", "c.pdf", "d.pdf", "e.pdf", "f.pdf", "g.pdf" >>
PassArchive(n) == [ k \in 1..n |-> [ dir |-> "d1", base |-> PassNames[k], sizeMB |-> 1 ] ]

\* router.post('/:jobId/upload') with one of these archives
UploadMany ==
  /\ archive = <<>> /\ ledger = <<>>
  /\ \E n \in 1..Min(MaxPassDocs, Len(PassNames)) :
       archive' = <<PassArchive(n)>>
  /\ jobStatus' = updateJobStatus([ status |-> "uploaded" ])
  /\ UNCHANGED <<substrate, ledger, metadata, tasks, flows, errors, reqs, faults,
                 outsideOrch>>

\* the one extract request of the job
ExtractOnce == reqs = <<>> /\ ReqExtract

NextPass ==
  \/ UploadMany
  \/ ExtractOnce
  \/ StartTask
  \/ \E f \in FlowIds :
       \/ Extract(f) /\ faults' = faults
       \/ LoadQueue(f)
       \/ ReadDocFail(f)
       \/ AnalyzeDoc(f)
       \/ SaveProgress(f)
       \/ FinalSave(f)
       \/ LoadResults(f)
       \/ GenerateReport(f) /\ faults' = faults

SpecPass == Init /\ [][NextPass]_vars

(***************************************************************************)
(* Properties of the orchestrator, checked under Spec.                     *)
(***************************************************************************)
IsPrefix(s, t) == Len(s) <= Len(t) /\ \A k \in 1..Len(s) : s[k] = t[k]

\* flow fl is inside an analyze pass: between the load of the ledger and the
\* entry into processReportGeneration
InPass(fl) ==
  \/ fl.pc \in { "doc", "save", "final" }
  \/ fl.pc = "report" /\ fl.pendingDocs /= <<>>
\* the loop of the pass of fl is over
PassEnded(fl) == fl.pendingDocs /= <<>> /\ fl.pc \in { "final", "report" }
\* the pass of fl was queued by the resume endpoint
ResumedPass(fl) == InPass(fl) /\ fl.task.origin = "resume"
\* the positions (in documents) of the Documents the pass of fl has sent to
\* the AI so far
Analyzed(fl) ==
  { fl.pendingDocs[k] : k \in { n \in 1..Len(fl.outcomes) : fl.outcomes[n] /= "read-error" } }
Terminal(doc) == doc.status \in { "completed", "failed" }
\* the job's status is st in the in-memory map, the metadata or the ledger
StatusIs(st) ==
  \/ jobStatus /= <<>> /\ jobStatus[1].status = st
  \/ metadata.status = st
  \/ ledger /= <<>> /\ ledger[1].status = st

\* C1: a resumed pass processes each Document that was pending when it loaded
\* the ledger once, and every Document that was already completed or failed
\* keeps its status, and the results and failedDocuments entries recorded
\* before the pass stay as they were.
C1_ResumeLeavesTerminalUntouched ==
  \A f \in FlowIds :
    LET fl == flows[f] IN
    ResumedPass(fl) =>
      /\ \A j \in 1..Len(fl.base.documents) :
           Terminal(fl.base.documents[j]) =>
             fl.queueData.documents[j].status = fl.base.documents[j].status
      /\ IsPrefix(fl.base.results, fl.queueData.results)
      /\ IsPrefix(fl.base.failedDocuments, fl.queueData.failedDocuments)
      /\ fl.pendingDocs = pendingDocs(fl.base)
      /\ PassEnded(fl) => Len(fl.outcomes) = Len(fl.pendingDocs)

\* C2: in every step of an analyze pass, a Document of the pass's ledger
\* object whose status changes was pending before the step: completed and
\* failed are never left.
C2_StatusOnlyLeavesPending ==
  [][ \A f \in FlowIds :
        ( /\ flows[f].pc \in { "doc", "save" }
          /\ flows'[f].pc \in { "doc", "save", "final" }
          /\ flows'[f].task = flows[f].task )
        => \A j \in 1..Len(flows[f].queueData.documents) :
             flows'[f].queueData.documents[j].status
                /= flows[f].queueData.documents[j].status
             => flows[f].queueData.documents[j].status = "pending" ]_vars

\* C3: no Document has been sent to the AI by two passes that two resume
\* requests started: two resumed passes in progress never share an analyzed
\* Document.
C3_ResumesNeverAnalyzeTwice ==
  \A f, g \in FlowIds :
    (f /= g /\ ResumedPass(flows[f]) /\ ResumedPass(flows[g]))
    => Analyzed(flows[f]) \cap Analyzed(flows[g]) = {}

\* C4: at most one flow of the job is inside the Document loop of an analyze
\* pass at any moment.
C4_OneAnalyzePassAtATime ==
  Cardinality({ f \in FlowIds : flows[f].pc \in { "doc", "save" } }) <= 1

\* C5: whenever the job's status is completed (in the in-memory map, the
\* metadata or the ledger), every Document of the ledger is completed or
\* failed and the ledger carries a reportKey.
C5_CompletedMeansAllTerminal ==
  StatusIs("completed") =>
    /\ ledger /= <<>>
    /\ \A j \in 1..Len(ledger[1].documents) : Terminal(ledger[1].documents[j])
    /\ ledger[1].reportKey

\* C6: a step in which processJob catches a fatal error that the substrate
\* does not run again (archive or ledger unreadable while extracting,
\* processing or generating the report) leaves the job's status failed.
C6_FatalErrorMarksFailed ==
  [][ (errors' > errors /\ tasks' = tasks) => StatusIs("failed")' ]_vars

\* C7: in an analyze pass, every Document whose analysis did not complete
\* (unsuccessful result, zero confidence, exception) is failed and has an
\* entry under its name in failedDocuments; the pass went on after it; and
\* the job's status is not failed.
C7_FailedDocumentMarkedAndPassGoesOn ==
  \A f \in FlowIds :
    LET fl == flows[f] IN
    InPass(fl) =>
      /\ \A k \in 1..Len(fl.outcomes) :
           fl.outcomes[k] /= "completed" =>
             /\ fl.queueData.documents[fl.pendingDocs[k]].status = "failed"
             /\ \E e \in 1..Len(fl.queueData.failedDocuments) :
                  fl.queueData.failedDocuments[e].name
                    = fl.queueData.documents[fl.pendingDocs[k]].name
      /\ fl.pc \in { "doc", "final", "report" } => Len(fl.outcomes) = fl.i
      /\ ~StatusIs("failed")

\* C8: when the loop of an analyze pass is over, results holds one record
\* more for every Document of the pass, the failed ones included.
C8_OneRecordPerProcessedDocument ==
  \A f \in FlowIds :
    LET fl == flows[f] IN
    PassEnded(fl) =>
      Len(fl.queueData.results) = Len(fl.base.results) + Len(fl.pendingDocs)

(***************************************************************************)
(* Properties of the retry loop, checked under SpecRetry.                  *)
(***************************************************************************)
\* C9: a call that is rate limited on attempts 1 and 2 and returns on
\* attempt 3 has slept twice, at least baseDelayMs and then at least
\* 2 * baseDelayMs, was invoked three times, and is recorded as one unit:
\* one result and the token usage of the one response.
C9_RateLimitedTwiceThenOneUnit ==
  ( /\ rpc = "recorded"
    /\ Len(seen) = 2
    /\ \A k \in 1..2 : isRateLimited(seen[k]) )
  => /\ calls = 3
     /\ Len(waits) = 2
     /\ waits[1] >= baseDelayMs
     /\ waits[2] >= 2 * baseDelayMs
     /\ Len(unitResults) = 1
     /\ unitTokens = response[1].input_tokens

\* the case of C9 has happened
C9_Witness ==
  /\ rpc = "recorded"
  /\ seen = <<429, 429>>
  /\ waits[2] < 2 * baseDelayMs + jitterMs

\* the errors the retry policy names: rate limited (429, 529) and transient
\* server errors (5xx)
Transient(status) == status \in { 429, 529 } \/ status \in 500..599

\* C10: every invocation after the first follows a wait, and every error
\* that was followed by a wait is a 429, a 529 or a 5xx; there are at most
\* maxRetries invocations; a call whose first error is permanent (400, 401,
\* no status) has thrown after one invocation and no wait; after the error
\* of invocation maxRetries nothing more is slept and the call has thrown.
C10_RetriesOnlyTransientAtMostMax ==
  /\ calls <= maxRetries
  /\ Len(waits) <= maxRetries - 1
  /\ calls <= Len(waits) + 1
  /\ Len(waits) <= Len(seen)
  /\ \A k \in 1..Len(waits) : Transient(seen[k])
  /\ rpc = "sleep" => Transient(seen[Len(seen)])
  /\ (seen /= <<>> /\ ~Transient(seen[1])) =>
       /\ calls = 1
       /\ waits = <<>>
       /\ rpc = "threw"
  /\ Len(seen) = maxRetries =>
       /\ rpc = "threw"
       /\ calls = maxRetries
       /\ Len(waits) = maxRetries - 1

\* the retries are exhausted: the error of invocation maxRetries has
\* propagated
C10_Witness ==
  /\ rpc = "threw"
  /\ Len(seen) = maxRetries
  /\ seen[maxRetries] = 529
  /\ calls = maxRetries

(***************************************************************************)
(* Properties of analyzePdf, checked under SpecAnalyzePdf.                 *)
(***************************************************************************)
\* C11: for a buffer of at most MAX_DIRECT_PDF_SIZE, whatever the libraries
\* can read of it, analyzePdf returns direct-text or direct-pdf.
C11_SmallNeverChunked ==
  ( /\ call.fn = "analyzePdf"
    /\ ret /= <<>>
    /\ call.pdfBuffer.sizeMB <= MAX_DIRECT_PDF_SIZE_MB )
  => ret[1].strategy \in { "direct-text", "direct-pdf" }

ParagraphsIn(s) ==
  { s[r].para : r \in { q \in 1..Len(s) : ~s[q].ws } }
\* the text of string s: its runs that are not white space
TextOf(s) == SelectSeq(s, LAMBDA r : ~r.ws)
RECURSIVE TextOfChunks(_)
TextOfChunks(chunks) ==
  IF chunks = <<>> THEN <<>>
  ELSE TextOf(Head(chunks).content) \o TextOfChunks(Tail(chunks))
RECURSIVE TextOfParagraphs(_, _)
TextOfParagraphs(paragraphs, k) ==
  IF k > Len(paragraphs) THEN <<>>
  ELSE Run(FALSE, paragraphs[k].body, k) \o TextOfParagraphs(paragraphs, k + 1)

\* C13: every chunk's content is at most chunkSize characters long, the
\* separators inside it counted, unless the chunk holds one paragraph only.
C13_ChunkWithinTarget ==
  (call.fn = "extractTextChunks" /\ ret /= <<>>) =>
    \A c \in 1..Len(ret[1]) :
      \/ length(ret[1][c].content) <= call.chunkSize
      \/ Cardinality(ParagraphsIn(ret[1][c].content)) = 1

\* C14: the text of the chunks, taken in index order, is the text of the
\* paragraphs in their order: each paragraph's text once, whole, never in
\* two chunks; inside a chunk a separator stands between two paragraphs.
\* (White space at the ends of a chunk is trimmed, and a paragraph that is
\* empty or all white space carries no text.)
C14_ChunksReproduceParagraphs ==
  (call.fn = "extractTextChunks" /\ ret /= <<>>) =>
    /\ TextOfChunks(ret[1]) = TextOfParagraphs(call.paragraphs, 1)
    /\ \A c \in 1..Len(ret[1]) :
         /\ ret[1][c].index = c - 1
         /\ LET content == ret[1][c].content IN
            \A q, r \in 1..Len(content) :
              (q < r /\ ~content[q].ws /\ ~content[r].ws) =>
                \E m \in (q + 1)..(r - 1) : content[m] \in { separator[1] }

\* a text of several paragraphs was cut into several chunks, one of which
\* holds two paragraphs
C14_Witness ==
  /\ call.fn = "extractTextChunks"
  /\ ret /= <<>>
  /\ Len(ret[1]) >= 2
  /\ \E c \in 1..Len(ret[1]) : Cardinality(ParagraphsIn(ret[1][c].content)) >= 2
  /\ \E k \in 1..Len(call.paragraphs) : call.paragraphs[k].trail > 0

(***************************************************************************)
(* Properties of splitPdfIntoBatches, checked under SpecBatches.           *)
(***************************************************************************)
\* the pages of a batch
PagesOf(batch) == batch.startPage..batch.endPage

\* C15: for a PDF of at most MAX_TOTAL_PAGES pages the page ranges of the
\* batches are pairwise disjoint and together are all the pages, whatever
\* the batch sizes and the outcomes of the bulk and single-page copies.
C15_BatchesPartitionThePages ==
  ( /\ call.fn = "splitPdfIntoBatches"
    /\ ret /= <<>>
    /\ ~ret[1].threw
    /\ call.pdf.totalPages <= MAX_TOTAL_PAGES ) =>
    LET batches == ret[1].batches IN
    /\ \A a, b \in 1..Len(batches) :
         a /= b => PagesOf(batches[a]) \cap PagesOf(batches[b]) = {}
    /\ UNION { PagesOf(batches[a]) : a \in 1..Len(batches) }
         = 1..call.pdf.totalPages

(***************************************************************************)
(* Properties of mergeExtractionResults, checked under SpecMerge.          *)
(***************************************************************************)
\* the results of the call that are records
ValidOf(results) == SelectSeq(results, LAMBDA r : r /= null)
Merged == call.fn = "mergeExtractionResults" /\ ret /= <<>>

\* C16: the merge of one single result is that result, unchanged.
C16_MergeOfOneIsIdentity ==
  (Merged /\ Len(call.results) = 1 /\ call.results[1] /= null) =>
    ret[1] = call.results[1]

C16_Witness ==
  /\ Merged
  /\ Len(call.results) = 1
  /\ call.results[1] /= null
  /\ call.results[1].confidence_score = 61

\* the value the merge of the units must give to a take-worst field: the
\* listed value of lowest index among the units, or the first unit's value
\* when no unit has a listed one
MostSevere(priority, values) ==
  LET listed == { indexOf(priority, values[i]) : i \in 1..Len(values) } \ { -1 }
  IN IF listed = {} THEN values[1]
     ELSE priority[(CHOOSE n \in listed : \A o \in listed : n <= o) + 1]

\* C17: for two or more units the merged risk_rating, and the merged
\* enforceability_decision, is the most severe value present among the
\* units by the fixed priority list, which does not depend on the order of
\* the units: a later unit changes it only when strictly more severe.
C17_MergedRatingIsMostSevere ==
  (Merged /\ Len(ValidOf(call.results)) >= 2) =>
    LET units == ValidOf(call.results) IN
    /\ ret[1].risk_rating =
         MostSevere(riskPriority, [ i \in 1..Len(units) |-> units[i].risk_rating ])
    /\ ret[1].enforceability_decision =
         MostSevere(enforceabilityPriority,
                    [ i \in 1..Len(units) |-> units[i].enforceability_decision ])

\* a later unit was more severe than the first and the last one was not
C17_Witness ==
  /\ Merged
  /\ Len(call.results) = 3
  /\ null \notin { call.results[i] : i \in 1..3 }
  /\ call.results[1].risk_rating = "Low"
  /\ call.results[2].risk_rating = "High"
  /\ call.results[3].risk_rating = "Medium"
  /\ ret[1].risk_rating = "High"

\* C18: the merged confidence_score is the arithmetic mean of the scores
\* that are numbers.
C18_ConfidenceIsTheMean ==
  (Merged /\ Len(ValidOf(call.results)) >= 2) =>
    LET scores == confidenceScores(ValidOf(call.results)) IN
    Len(scores) > 0 => ret[1].confidence_score * Len(scores) = sum(scores)

(***************************************************************************)
(* Properties of the large-PDF path, checked under SpecLargePdf.           *)
(***************************************************************************)
\* C19: a 3-page scanned PDF of 25 MB, every read and copy of which
\* succeeds, gets strategy page-split and is split into exactly 1 batch of
\* its 3 pages; exactly 1 AI invocation is made, and when it gives a record
\* the recorded result is that record with _chunks_processed = 1.
C19_ThreePagesOneBatchOneInvocation ==
  ( /\ call.fn = "analyzeDocument"
    /\ call.doc.sizeMB = 25 /\ call.doc.numpages = 3
    /\ call.doc.readable = "text"
    /\ call.doc.bulkFails = {} /\ call.doc.pageFails = {}
    /\ large.pc /= "idle" ) =>
    /\ large.strategy = "page-split"
    /\ Len(large.units) = 1
    /\ large.units[1].startPage = 1 /\ large.units[1].endPage = 3
    /\ large.pc = "returned" => large.invocations = 1
    /\ (ret /= <<>> /\ large.results /= <<>> /\ large.results[1] /= null) =>
         ret[1].data = [ large.results[1] EXCEPT !._chunks_processed = 1 ]

\* C20: a 60 MB text PDF of 200,000 extracted characters gives exactly 5
\* text chunks whatever the division of the text into paragraphs; exactly 5
\* AI invocations are made; the merged risk_rating is the most severe among
\* the unit ratings.
C20_FiveChunksFiveInvocations ==
  ( /\ call.fn = "analyzeDocument"
    /\ call.doc.sizeMB = 60
    /\ call.doc.readable = "text"
    /\ fullTextLength(call.doc.paragraphs) = 200000
    /\ large.pc /= "idle" ) =>
    /\ large.strategy = "text-chunk"
    /\ Len(large.units) = 5
    /\ large.pc = "returned" => large.invocations = 5
    /\ (large.pc = "returned" /\ large.result.success) =>
         LET units == ValidOf(large.results) IN
         large.result.data.risk_rating =
           MostSevere(riskPriority, [ i \in 1..Len(units) |-> units[i].risk_rating ])

(***************************************************************************)
(* Pacing and backoff ceiling, checked under SpecLargePdf and SpecRetry.   *)
(***************************************************************************)
\* C29: before every unit after the first, the pacing delay of the strategy
\* (500 ms after a text chunk, 1500 ms after a page batch) was waited once
\* for each unit before it, whether that unit gave a result or threw.
C29_PacingBetweenUnits ==
  (large.pc = "units" /\ large.i > 0 /\ large.i < Len(large.units)) =>
    /\ Len(large.waits) = large.i
    /\ \A k \in 1..Len(large.waits) :
         large.waits[k] = IF large.strategy = "text-chunk" THEN 500 ELSE 1500

\* C30: the wait before retry k (k = 0, 1, ...) is min(baseDelayMs * 2^k,
\* maxDelayMs) plus a jitter below jitterMs, and no wait exceeds
\* maxDelayMs + jitterMs, whatever the retry-after hint of the server.
C30_WaitWithinBackoffCeiling ==
  \A k \in 1..Len(waits) :
    LET capped == IF baseDelayMs * 2 ^ (k - 1) < maxDelayMs
                  THEN baseDelayMs * 2 ^ (k - 1) ELSE maxDelayMs
    IN /\ waits[k] >= capped
       /\ waits[k] < capped + jitterMs
       /\ waits[k] <= maxDelayMs + jitterMs

(***************************************************************************)
(* The decision table of analyzePdf, checked under SpecAnalyzePdf.         *)
(***************************************************************************)
\* C25: when the text of the buffer is read, the strategy follows the
\* table, in order, with scanned = average text per page below 100
\* characters, or total text below the 500-character minimum: small and not
\* scanned, direct-text; small and scanned, direct-pdf; large, not scanned
\* and text above the minimum, text-chunk; otherwise page-split.
C25_DecisionTable ==
  (call.fn = "analyzePdf" /\ ret /= <<>> /\ call.pdfBuffer.readable = "text") =>
    LET b == call.pdfBuffer
        small == b.sizeMB <= 10
        scanned == \/ b.numpages = 0
                   \/ b.textLength < 100 * b.numpages
                   \/ b.textLength < 500
    IN ret[1].strategy =
         IF small /\ ~scanned THEN "direct-text"
         ELSE IF small THEN "direct-pdf"
         ELSE IF ~scanned /\ b.textLength > 500 THEN "text-chunk"
         ELSE "page-split"

(***************************************************************************)
(* Properties of the resume endpoint and of the auto-advance, checked      *)
(* under SpecLive.                                                         *)
(***************************************************************************)
\* a resume request is answered in this step
ResumeAnswered ==
  /\ Len(reqs') = Len(reqs) + 1
  /\ reqs'[Len(reqs')] \in { "resume: already completed",
                             "resume: generating report",
                             "resume: analysis resumed" }
\* no Document of the ledger is pending
NonePending ==
  /\ ledger /= <<>>
  /\ \A j \in 1..Len(ledger[1].documents) : ledger[1].documents[j].status /= "pending"
\* the job is completed and has a report
CompletedWithReport ==
  /\ ledger /= <<>>
  /\ ledger[1].status = "completed"
  /\ ledger[1].reportKey

\* C21: a resume answered while the ledger has no pending Document and is
\* completed enqueues no task and leaves the ledger, the metadata and the
\* in-memory status as they are.
C21_ResumeOnCompletedIsNoOp ==
  [][ (ResumeAnswered /\ NonePending /\ ledger[1].status = "completed")
      => UNCHANGED <<tasks, ledger, metadata, jobStatus, flows>> ]_vars

\* a resume was answered "already completed"
C21_Witness ==
  /\ reqs /= <<>>
  /\ reqs[Len(reqs)] = "resume: already completed"
  /\ CompletedWithReport

\* a generate-report task that a resume request added
ResumeReportTask == [ type |-> "generate-report", origin |-> "resume", attempt |-> 1 ]
ResumeReportQueued == \E k \in 1..Len(tasks) : tasks[k] = ResumeReportTask

C28_ExtractAdvancesToCompleted ==
  ( /\ reqs = << "extract" >>
    /\ ledger /= <<>>
    /\ tasks = <<>>
    /\ \A f \in FlowIds : ~Active(f)
    /\ errors = 0 )
  => CompletedWithReport

(***************************************************************************)
(* The status endpoint across a restart, checked under Spec.               *)
(***************************************************************************)
\* C24: in a step that loses the in-memory status map, the status endpoint
\* answers after the loss, from metadata.json and queue.json alone, the
\* lifecycle status and the counts it answered before the loss.
C24_StatusRebuiltFromStorage ==
  [][ (jobStatus /= <<>> /\ jobStatus' = <<>>) =>
        /\ statusResponse'.status.status = statusResponse.status.status
        /\ statusResponse'.status.totalDocuments = statusResponse.status.totalDocuments
        /\ statusResponse'.status.processedCount = statusResponse.status.processedCount
        /\ statusResponse'.status.failedCount = statusResponse.status.failedCount
    ]_vars

(***************************************************************************)
(* The marking of Documents and the writes of the ledger during a pass.    *)
(***************************************************************************)
\* C26: in an analyze pass, a processed Document is completed exactly when
\* its result was successful with a confidence_score above zero and no
\* error followed; in every other case it is failed and failedDocuments
\* has an entry with its name and a reason.
C26_CompletedIffSuccessfulAndConfident ==
  \A f \in FlowIds :
    LET fl == flows[f] IN
    InPass(fl) =>
      \A k \in 1..Len(fl.outcomes) :
        LET doc == fl.queueData.documents[fl.pendingDocs[k]] IN
        /\ doc.status = "completed" <=> fl.outcomes[k] = "completed"
        /\ fl.outcomes[k] /= "completed" =>
             /\ doc.status = "failed"
             /\ \E e \in 1..Len(fl.queueData.failedDocuments) :
                  /\ fl.queueData.failedDocuments[e].name = doc.name
                  /\ fl.queueData.failedDocuments[e].reason /= ""

\* C27: in a step that ends the turn of a Document of an analyze pass which
\* is large or the 5th, 10th, ... of the pass, and not the last (the write
\* after the loop follows the last), the ledger in storage becomes the
\* ledger of the pass, whatever the outcome of the Document, unless the
\* write itself fails.
C27_LedgerWrittenAtCheckpoints ==
  [][ \A f \in FlowIds :
        ( /\ flows[f].pc \in { "doc", "save" }
          /\ flows'[f].task = flows[f].task
          /\ flows'[f].i = flows[f].i + 1
          /\ flows[f].i < Len(flows[f].pendingDocs) - 1
          /\ \/ (flows[f].i + 1) % SAVE_EVERY = 0
             \/ IsLarge(CurrentDoc(flows[f]))
          /\ ~(flows[f].pc = "save" /\ faults' > faults) )
        => ledger' = << flows'[f].queueData >> ]_vars

(***************************************************************************)
(* The two task substrates.                                                *)
(***************************************************************************)
\* every added task has returned and none has thrown
AllTasksReturned ==
  /\ tasks = <<>>
  /\ \A f \in FlowIds : ~Active(f)
  /\ errors = 0
  /\ faults = 0

\* the ledgers the worker, running the added tasks one at a time in the
\* order they were added, leaves when none of them throws
WorkerLedgers ==
  UNION { workerLedgers(addedTasks(reqs), l) : l \in uploadedLedgers }

\* C23: when every added task has returned, no call having failed, and
\* the same tasks run one at a time in the order they were added return
\* too, the ledger in storage is one that this one-at-a-time execution
\* leaves (for some results of the AI calls), under either substrate.
C23_SameLedgerUnderBothSubstrates ==
  (AllTasksReturned /\ ledger /= <<>> /\ WorkerLedgers /= {}) =>
    ledger \in WorkerLedgers

(***************************************************************************)
(* Errors without an HTTP status, checked under SpecRetry.                 *)
(***************************************************************************)
\* C40: an error that carries no status ends executeWithRetry at once: it
\* is never followed by a wait or another invocation and the call has
\* thrown; when it is the first error, the call was invoked exactly once
\* and nothing was slept.
C40_NoStatusIsNotRetried ==
  \A k \in 1..Len(seen) :
    seen[k] = NoStatus =>
      /\ k = Len(seen)
      /\ rpc = "threw"
      /\ calls = k
      /\ Len(waits) = k - 1
      /\ k = 1 => calls = 1 /\ waits = <<>>

\* the first invocation has failed without a status and the error has
\* propagated
C40_Witness ==
  /\ seen = << NoStatus >>
  /\ rpc = "threw"
  /\ calls = 1

(***************************************************************************)
(* An analyze request with nothing to analyze, checked under SpecLive.     *)
(***************************************************************************)
\* every added task has returned and no flow runs
Quiet == tasks = <<>> /\ \A f \in FlowIds : ~Active(f)

\* C39: when the job is completed (no Document pending, report generated),
\* the last request was an analyze request and its task has returned, the
\* job is as the completion left it: the ledger and the metadata are
\* completed with the report, and so is the in-memory status.
C39_AnalyzeWithNothingPendingIsNoOp ==
  ( /\ Quiet
    /\ errors = 0
    /\ reqs /= <<>>
    /\ reqs[Len(reqs)] = "analyze"
    /\ NonePending
    /\ ledger[1].status = "completed" )
  => /\ ledger[1].reportKey
     /\ metadata.status = "completed"
     /\ jobStatus /= <<>>
     /\ jobStatus[1].status = "completed"

(***************************************************************************)
(* The degraded paths of splitPdfIntoBatches, checked under SpecBatches.   *)
(***************************************************************************)
\* the pages (1-based) the loop puts in its k-th batch (k from 0)
GroupPages(pdf, pagesPerBatch, k) ==
  (k * pagesPerBatch + 1)..Min((k + 1) * pagesPerBatch, pdf.totalPages)
Groups(pdf, pagesPerBatch) == 0..(Ceil(pdf.totalPages, pagesPerBatch) - 1)
\* the bulk creation of the batch of these pages fails, or the batch has
\* more than one page and is above MAX_BATCH_SIZE
Degrades(pdf, pages) ==
  \/ \E first \in pages : (\A q \in pages : first <= q) /\ first \in pdf.bulkFails
  \/ Cardinality(pages) > 1 /\ Cardinality(pages) * pdf.pageMB > MAX_BATCH_SIZE_MB
\* the positions in batches of the batches with a page among pages
BatchesOn(batches, pages) ==
  { a \in 1..Len(batches) : PagesOf(batches[a]) \cap pages /= {} }

\* C31: when the PDF loads, splitPdfIntoBatches returns; no emitted batch
\* of more than one page is above MAX_BATCH_SIZE; a batch that is oversized
\* with more than one page, or whose bulk creation fails, is emitted as
\* one-page batches only, one for each of its pages whose own extraction
\* works; and the pages of every other batch, before or after it, are
\* emitted as one batch.
C31_DegradesToSinglePages ==
  ( /\ call.fn = "splitPdfIntoBatches"
    /\ ret /= <<>>
    /\ call.pdf.loads ) =>
    LET batches == ret[1].batches
        pdf == call.pdf
    IN
    /\ ~ret[1].threw
    /\ \A a \in 1..Len(batches) :
         batches[a].pageCount > 1 => batches[a].size <= MAX_BATCH_SIZE_MB
    /\ \A k \in Groups(pdf, call.pagesPerBatch) :
         LET pages == GroupPages(pdf, call.pagesPerBatch, k)
             on == BatchesOn(batches, pages)
         IN IF Degrades(pdf, pages)
            THEN /\ \A a \in on : batches[a].pageCount = 1
                 /\ { batches[a].startPage : a \in on } = pages \ pdf.pageFails
                 /\ Cardinality(on) = Cardinality(pages \ pdf.pageFails)
            ELSE \E a \in 1..Len(batches) :
                   /\ on = { a }
                   /\ PagesOf(batches[a]) = pages

\* a call in which the first batch (pages 1-2) is oversized, the bulk
\* creation of the second (pages 3-4) fails and the last page follows:
\* five one-page batches come out
C31_Witness ==
  /\ call.fn = "splitPdfIntoBatches"
  /\ ret /= <<>>
  /\ call.pdf.loads
  /\ call.pdf.totalPages = 5 /\ call.pagesPerBatch = 2 /\ call.pdf.pageMB = 5
  /\ call.pdf.bulkFails = { 3 } /\ call.pdf.pageFails = {}
  /\ Len(ret[1].batches) = 5

(***************************************************************************)
(* The yes-overrides and first-valid fields, checked under SpecMerge.      *)
(***************************************************************************)
\* the results in another order
Reordered(results, p) == [ i \in 1..Len(results) |-> results[p[i]] ]
Orders(n) == { p \in [ 1..n -> 1..n ] : \A i, j \in 1..n : i /= j => p[i] /= p[j] }

\* C32: the merge of two or more units has a subsequent_charges that
\* starts with "yes" (in any case) exactly when the value of at least one
\* unit does, and so has the merge of the same units in any other order.
C32_YesFromAnyUnitWins ==
  (Merged /\ Len(ValidOf(call.results)) >= 2) =>
    LET valid == ValidOf(call.results)
        anyYes == \E i \in 1..Len(valid) : startsWithYes(valid[i].subsequent_charges)
    IN /\ startsWithYes(ret[1].subsequent_charges) <=> anyYes
       /\ \A p \in Orders(Len(valid)) :
            startsWithYes(mergeExtractionResults(Reordered(valid, p)).subsequent_charges)
              <=> anyYes

\* a "yes" of the first unit followed by a "No" of the second
C32_Witness ==
  /\ Merged
  /\ Len(call.results) = 2
  /\ call.results[1] /= null /\ call.results[2] /= null
  /\ call.results[1].subsequent_charges = "yes - second charge"
  /\ call.results[2].subsequent_charges = "No"
  /\ ret[1].subsequent_charges = "yes - second charge"

\* the positions of the units whose borrower_name is given
GivenUnits(valid) == { i \in 1..Len(valid) : givenString(valid[i].borrower_name) }

\* C33: the merge of two or more units has the borrower_name of the first
\* unit, in unit order, whose value is given (not missing, not 'Unknown',
\* not 'Not in this section'), whatever the later units say; when no unit
\* gives one, the value of the first unit stays.
C33_FirstGivenValueWins ==
  (Merged /\ Len(ValidOf(call.results)) >= 2) =>
    LET valid == ValidOf(call.results)
        given == GivenUnits(valid)
    IN IF given /= {}
       THEN \E i \in given :
              /\ \A j \in given : i <= j
              /\ ret[1].borrower_name = valid[i].borrower_name
       ELSE ret[1].borrower_name = valid[1].borrower_name

\* a placeholder, then a name, then another name: the first name is kept
C33_Witness ==
  /\ Merged
  /\ Len(call.results) = 3
  /\ \A i \in 1..3 : call.results[i] /= null
  /\ call.results[1].borrower_name = "Unknown"
  /\ call.results[2].borrower_name = "A Kumar"
  /\ call.results[3].borrower_name = "B Rao"
  /\ ret[1].borrower_name = "A Kumar"

(***************************************************************************)
(* The units of a large PDF that fail or succeed, checked under            *)
(* SpecLargePdf.                                                           *)
(***************************************************************************)
\* C38: when processLargePdf has returned for a document of two or more
\* units, every unit was invoked (a unit
\* that threw did not stop the loop), and with n the number of units whose
\* invocation and parsing succeeded: n is at most the number of units; the
\* result is unsuccessful exactly when n = 0; otherwise chunksProcessed is
\* n and the record is the answer of the one unit (n = 1) or a merge of n
\* records (n >= 2).
C38_MergedFromTheSuccessfulUnits ==
  (large.pc = "returned" /\ Len(large.units) >= 2) =>
    LET n == Len(large.results) IN
    /\ large.invocations = Len(large.units)
    /\ n <= Len(large.units)
    /\ large.result.success <=> n > 0
    /\ n > 0 => large.result.chunksProcessed = n
    /\ (n = 1 /\ large.result.success) => large.result.data = large.results[1]
    /\ (n >= 2 /\ large.result.success) =>
         /\ large.result.data._chunked
         /\ large.result.data._chunks_processed = n

(***************************************************************************)
(* The retry of the extract task, checked under Spec.                      *)
(***************************************************************************)
\* C36: in a step in which a retried extract task (attempt 2) saves the
\* ledger, every Document that was completed or failed in the stored
\* ledger keeps its status and the recorded results are kept.
C36_ExtractRetryKeepsProgress ==
  [][ \A f \in FlowIds :
        ( /\ flows[f].pc = "extract"
          /\ flows[f].task.attempt > 1
          /\ flows'[f].pc = "load"
          /\ ledger /= <<>> )
        => /\ ledger' /= <<>>
           /\ \A j \in 1..Len(ledger[1].documents) :
                Terminal(ledger[1].documents[j]) =>
                  /\ j <= Len(ledger'[1].documents)
                  /\ ledger'[1].documents[j].status = ledger[1].documents[j].status
           /\ IsPrefix(ledger[1].results, ledger'[1].results) ]_vars

(***************************************************************************)
(* processedCount in the stored ledger, checked under Spec.                *)
(***************************************************************************)
\* the number of Documents of queueData that are not pending
NotPending(queueData) ==
  Cardinality({ j \in 1..Len(queueData.documents) :
                  queueData.documents[j].status /= "pending" })
\* no two Documents of queueData have the same storage key
DistinctKeys(queueData) ==
  \A j, k \in 1..Len(queueData.documents) :
    j /= k => queueData.documents[j].key /= queueData.documents[k].key

\* C34: in every step of an analyze pass or of the report generation that
\* writes the ledger (the Documents having pairwise distinct keys), the
\* processedCount written is the number of Documents that are not pending,
\* and it is not below the processedCount of the ledger it replaces.
C34_ProcessedCountCountsTerminalDocuments ==
  [][ ( /\ ledger /= <<>>
        /\ ledger' /= <<>>
        /\ ledger' /= ledger
        /\ ledger'[1].documents /= <<>>
        /\ Len(ledger'[1].documents) = Len(ledger[1].documents)
        /\ \E f \in FlowIds : flows[f].pc \in { "save", "final", "generate" }
        /\ DistinctKeys(ledger'[1]) )
      => /\ ledger'[1].processedCount = NotPending(ledger'[1])
         /\ ledger'[1].processedCount >= ledger[1].processedCount ]_vars

(***************************************************************************)
(* Archives with a repeated base name, checked under SpecLive.             *)
(***************************************************************************)
\* C35: when the loop of an analyze pass is over, every Document the pass
\* processed has a status of its own (none is pending), and a stored
\* ledger whose status is analysis-complete has no pending Document.
C35_PassLeavesNoDocumentPending ==
  /\ \A f \in FlowIds :
       PassEnded(flows[f]) =>
         \A k \in 1..Len(flows[f].pendingDocs) :
           Terminal(flows[f].queueData.documents[flows[f].pendingDocs[k]])
  /\ (ledger /= <<>> /\ ledger[1].status = "analysis-complete") => NonePending

(***************************************************************************)
(* Progress not yet in storage, checked under SpecPass.                    *)
(***************************************************************************)
\* the Documents that are completed or failed in the pass's queueData and
\* not in the stored ledger
Unsaved(fl) ==
  { j \in 1..Len(fl.queueData.documents) :
      /\ Terminal(fl.queueData.documents[j])
      /\ ~(ledger /= <<>> /\ j <= Len(ledger[1].documents)
           /\ Terminal(ledger[1].documents[j])) }

\* C37: whenever an analyze pass is between two Documents, at most
\* SAVE_EVERY - 1 = 4 Documents are completed or failed in memory and not
\* in the stored ledger, whatever the outcomes of the Documents.
C37_AtMostFourUnsaved ==
  \A f \in FlowIds :
    flows[f].pc = "doc" => Cardinality(Unsaved(flows[f])) <= SAVE_EVERY - 1

====
